---- MODULE Spec2Model ----
(***************************************************************************)
(* A model of archivefile: the ArchiveFile facade (src/archivefile/_core.py)*)
(* and the four format adapters (src/archivefile/_adapters/*.py) over the   *)
(* codec libraries zipfile, tarfile, py7zr and rarfile.                     *)
(*                                                                          *)
(* The codec libraries are external: each call into them is modelled by    *)
(* the behaviour the library documents for that call (the Lib* operators).  *)
(***************************************************************************)
EXTENDS Integers, Sequences, FiniteSets, TLC

VARIABLES
    suffixes,   \* Path(file).suffixes of the archive path
    exists,     \* whether the archive path existed when open was called
    content,    \* the signature checks the file's content passes
    layer,      \* "facade" (ArchiveFile) or the name of the adapter class
    mode,       \* the mode string the caller passed to open
    handle,     \* "Unopened" | "Open" | "Closed"
    handler,    \* the codec behind the handle: "tar" | "zip" | "7z" | "rar" | "none"
    hmode,      \* the mode the handle reports (its _mode attribute)
    effect,     \* what open did to the archive file: "none" | "created" | "truncated"
    result,     \* the last call: [op, arg, err, val, on, pre]
    archive,    \* the entries of the archive behind the handle
    decoder,    \* py7zr's decoder: "fresh" | "used"
    destination, \* the destination directory of the last call, after it
    scope,      \* the with statement around the handle: "none" | "with" | "exited"
    pending,    \* the exception raised in the body of the with statement
    written,    \* the bytes last written under each name, by name
    cwd,        \* the working directory: [default, now], default the one that
                \* was current when the package was imported
    staging     \* the temporary directories of the calls: [held, left], held
                \* what the last one held when its with statement was left,
                \* left what is still there of them

vars == <<suffixes, exists, content, layer, mode, handle, handler, hmode, effect, result,
          archive, decoder, destination, scope, pending, written, cwd, staging>>

----------------------------------------------------------------------------
(* Bounds *)

MaxSuffixes == 2

----------------------------------------------------------------------------
(* The working directory of the process.  The package is imported once,  *)
(* in the directory d; the working directory may change afterwards.       *)

AtImport(d) == [default |-> d, now |-> d]

\* No temporary directory was made yet
NoStaging == [held |-> {}, left |-> {}]

----------------------------------------------------------------------------
(* _types.py: OpenArchiveMode *)

OpenArchiveMode ==
    { "r", "r:*", "r:", "r:gz", "r:bz2", "r:xz",
      "w", "w:", "w:gz", "w:bz2", "w:xz",
      "x", "x:", "x:gz", "x:bz2", "x:xz",
      "a", "a:" }

\* mode[0]
ModeHead(m) ==
    CASE m \in {"r", "r:*", "r:", "r:gz", "r:bz2", "r:xz"} -> "r"
      [] m \in {"w", "w:", "w:gz", "w:bz2", "w:xz"} -> "w"
      [] m \in {"x", "x:", "x:gz", "x:bz2", "x:xz"} -> "x"
      [] m \in {"a", "a:"} -> "a"

----------------------------------------------------------------------------
(* _enums.py: CommonExtensions (the extension whitelists) *)

CommonExtensions ==
    [ ZIP      |-> {".zip", ".cbz"},
      TAR      |-> {".tar", ".tar.gz", ".tar.bz2", ".tar.xz", ".cbt"},
      SEVENZIP |-> {".7z", ".cb7"},
      RAR      |-> {".rar", ".cbr"} ]

\* The single suffixes a path can carry: Path.suffixes splits "a.tar.gz" into
\* ".tar", ".gz", so an element of a suffix list never holds two dots.
Suffix == {".zip", ".cbz", ".tar", ".cbt", ".7z", ".cb7", ".rar", ".cbr", ".gz"}

SuffixLists == UNION { [1..n -> Suffix] : n \in 1..MaxSuffixes }

\* _utils.py: check_extension
check_extension(extensions, whitelist) ==
    \E i \in DOMAIN extensions : extensions[i] \in whitelist

----------------------------------------------------------------------------
(* The signature checks of the codec libraries on a file's content.        *)
(* content is the set of checks that succeed: "tar" is_tarfile, "zip"      *)
(* is_zipfile, "7z" is_7zfile, "rar" is_rarfile (rar magic at offset 0),   *)
(* "sfx" a rar magic found behind an executable stub.                       *)

Signature == {"tar", "zip", "7z", "rar", "sfx"}

\* 7z and rar both want their magic number at offset 0: no file has both.
Contents == { c \in SUBSET Signature : ~({"7z", "rar"} \subseteq c) }

is_tarfile(c) == "tar" \in c
is_zipfile(c) == "zip" \in c
is_7zfile(c) == "7z" \in c
is_rarfile(c) == "rar" \in c
\* rarfile.is_rarfile_sfx searches the file for the magic, offset 0 included
is_rarfile_sfx(c) == "rar" \in c \/ "sfx" \in c

\* _utils.py: is_archive
is_archive(ex, c) ==
    IF ex
    THEN is_tarfile(c) \/ is_zipfile(c) \/ is_rarfile(c) \/ is_rarfile_sfx(c) \/ is_7zfile(c)
    ELSE FALSE

----------------------------------------------------------------------------
(* Constructors of the codec libraries: what opening path in mode m does,  *)
(* given whether the path exists (ex) and what its content is (c).         *)
(* Each gives [err, effect].                                               *)

Opened(eff) == [err |-> "none", effect |-> eff]
Failed(e) == [err |-> e, effect |-> "none"]

\* open(..., "w"): truncate or create
Truncate(ex) == Opened(IF ex THEN "truncated" ELSE "created")

\* tarfile.open(path, mode=m)
LibTarOpen(m, ex, c) ==
    CASE ModeHead(m) = "r" ->
            IF ~ex THEN Failed("FileNotFoundError")
            ELSE IF ~is_tarfile(c) THEN Failed("ReadError")
            ELSE Opened("none")
      [] ModeHead(m) = "w" -> Truncate(ex)
      [] ModeHead(m) = "x" -> IF ex THEN Failed("FileExistsError") ELSE Opened("created")
      [] ModeHead(m) = "a" ->
            IF ~ex THEN Opened("created")
            ELSE IF ~is_tarfile(c) THEN Failed("ReadError")
            ELSE Opened("none")

\* zipfile.ZipFile(path, mode=m), m one of r w x a
LibZipOpen(m, ex, c) ==
    CASE m = "r" ->
            IF ~ex THEN Failed("FileNotFoundError")
            ELSE IF ~is_zipfile(c) THEN Failed("BadZipFile")
            ELSE Opened("none")
      [] m = "w" -> Truncate(ex)
      [] m = "x" -> IF ex THEN Failed("FileExistsError") ELSE Opened("created")
      [] m = "a" -> IF ex THEN Opened("none") ELSE Opened("created")

\* py7zr.SevenZipFile(path, mode=m): no mode x, mode a only on an existing archive
LibSevenZipOpen(m, ex, c) ==
    CASE m = "r" ->
            IF ~ex THEN Failed("FileNotFoundError")
            ELSE IF ~is_7zfile(c) THEN Failed("Bad7zFile")
            ELSE Opened("none")
      [] m = "w" -> Truncate(ex)
      [] m = "a" ->
            IF ~ex THEN Failed("FileNotFoundError")
            ELSE IF ~is_7zfile(c) THEN Failed("Bad7zFile")
            ELSE Opened("none")
      [] OTHER -> Failed("ValueError")

\* rarfile.RarFile(path, mode="r")
LibRarOpen(m, ex, c) ==
    IF m # "r" THEN Failed("NotImplementedError")
    ELSE IF ~ex THEN Failed("FileNotFoundError")
    ELSE IF ~is_rarfile_sfx(c) THEN Failed("NotRarFile")
    ELSE Opened("none")

----------------------------------------------------------------------------
(* open: what a constructor leaves behind. [handle, handler, hmode, err, effect] *)

Raise(e) ==
    [handle |-> "Unopened", handler |-> "none", hmode |-> "none", err |-> e, effect |-> "none"]

\* self._handler = <library constructor>: the handle exists only if it returned
Attach(kind, hm, lib) ==
    IF lib.err = "none"
    THEN [handle |-> "Open", handler |-> kind, hmode |-> hm, err |-> "none", effect |-> lib.effect]
    ELSE Raise(lib.err)

\* A slip: the rar extension is not rejected and falls into the 7z creation.
NewArchive_RarCreated(extensions, md) ==
    IF ModeHead(md) # "r"
    THEN IF check_extension(extensions, CommonExtensions.TAR)
         THEN Attach("tar", md, LibTarOpen(md, FALSE, {}))
         ELSE IF check_extension(extensions, CommonExtensions.ZIP)
         THEN Attach("zip", md, LibZipOpen(ModeHead(md), FALSE, {}))
         ELSE IF check_extension(extensions, CommonExtensions.SEVENZIP)
              \/ check_extension(extensions, CommonExtensions.RAR)
         THEN Attach("7z", md, LibSevenZipOpen("w", FALSE, {}))
         ELSE Raise("UnsupportedArchiveOperation")
    ELSE Raise("FileNotFoundError")

\* ArchiveFile._initialize_handler, the branch `if not archive.exists()`
NewArchive(extensions, md) ==
    IF ModeHead(md) # "r"
    THEN IF check_extension(extensions, CommonExtensions.TAR)
         THEN Attach("tar", md, LibTarOpen(md, FALSE, {}))
         ELSE IF check_extension(extensions, CommonExtensions.ZIP)
         THEN Attach("zip", md, LibZipOpen(ModeHead(md), FALSE, {}))
         ELSE IF check_extension(extensions, CommonExtensions.SEVENZIP)
         THEN Attach("7z", md, LibSevenZipOpen("w", FALSE, {}))
         ELSE IF check_extension(extensions, CommonExtensions.RAR)
         THEN Raise("UnsupportedArchiveOperation")
         ELSE Raise("UnsupportedArchiveOperation")
    ELSE Raise("FileNotFoundError")

\* A slip: a file of no known signature is handed to zipfile.
ExistingArchive_ZipFallback(c, md) ==
    IF is_tarfile(c)
    THEN Attach("tar", md, LibTarOpen(md, TRUE, c))
    ELSE IF is_zipfile(c)
    THEN Attach("zip", md, LibZipOpen(ModeHead(md), TRUE, c))
    ELSE IF is_7zfile(c)
    THEN IF ModeHead(md) = "x"
         THEN Raise("FileExistsError")
         ELSE Attach("7z", md, LibSevenZipOpen(ModeHead(md), TRUE, c))
    ELSE IF is_rarfile(c)
    THEN IF ModeHead(md) # "r"
         THEN Raise("UnsupportedArchiveOperation")
         ELSE Attach("rar", md, LibRarOpen("r", TRUE, c))
    ELSE Attach("zip", md, LibZipOpen(ModeHead(md), TRUE, c))

\* ArchiveFile._initialize_handler, the branches taken when the archive exists
ExistingArchive(c, md) ==
    IF is_tarfile(c)
    THEN Attach("tar", md, LibTarOpen(md, TRUE, c))
    ELSE IF is_zipfile(c)
    THEN Attach("zip", md, LibZipOpen(ModeHead(md), TRUE, c))
    ELSE IF is_7zfile(c)
    THEN IF ModeHead(md) = "x"
         THEN Raise("FileExistsError")
         ELSE Attach("7z", md, LibSevenZipOpen(ModeHead(md), TRUE, c))
    ELSE IF is_rarfile(c)
    THEN IF ModeHead(md) # "r"
         THEN Raise("UnsupportedArchiveOperation")
         ELSE Attach("rar", md, LibRarOpen("r", TRUE, c))
    ELSE Raise("UnsupportedArchiveOperation")

\* A slip: an existing file is dispatched on its extension before its content.
initialize_handler_ByExtension(extensions, ex, c, md) ==
    IF ~ex
    THEN NewArchive(extensions, md)
    ELSE IF check_extension(extensions, CommonExtensions.ZIP)
    THEN Attach("zip", md, LibZipOpen(ModeHead(md), TRUE, {"zip"}))
    ELSE ExistingArchive(c, md)

\* ArchiveFile._initialize_handler
initialize_handler(extensions, ex, c, md) ==
    IF ~ex
    THEN NewArchive(extensions, md)
    ELSE ExistingArchive(c, md)

\* ZipFileAdapter.__init__
ZipFileAdapter_init(md, ex, c) ==
    Attach("zip", ModeHead(md), LibZipOpen(ModeHead(md), ex, c))

\* TarFileAdapter.__init__
TarFileAdapter_init(md, ex, c) ==
    Attach("tar", md, LibTarOpen(md, ex, c))

\* A slip: the mode is handed to py7zr as it was given.
SevenZipFileAdapter_init_AsGiven(md, ex, c) ==
    Attach("7z", ModeHead(md), LibSevenZipOpen(ModeHead(md), ex, c))

\* SevenZipFileAdapter.__init__
SevenZipFileAdapter_init(md, ex, c) ==
    IF ModeHead(md) = "x" /\ ex
    THEN Raise("FileExistsError")
    ELSE LET m1 == IF ModeHead(md) = "x" THEN "w" ELSE ModeHead(md)
             m2 == IF m1 = "a" /\ ~ex THEN "w" ELSE m1
         IN  Attach("7z", m2, LibSevenZipOpen(m2, ex, c))

\* RarFileAdapter.__init__
RarFileAdapter_init(md, ex, c) ==
    IF ModeHead(md) = "r"
    THEN Attach("rar", ModeHead(md), LibRarOpen(ModeHead(md), ex, c))
    ELSE Raise("NotImplementedError")

----------------------------------------------------------------------------
(* The open specification: one target, one call of a constructor.          *)

NoResult == [op |-> "none", err |-> "none"]

InitOpen ==
    /\ suffixes \in SuffixLists
    /\ exists \in BOOLEAN
    /\ content \in (IF exists THEN Contents ELSE {{}})
    /\ layer = "none"
    /\ mode = "none"
    /\ handle = "Unopened"
    /\ handler = "none"
    /\ hmode = "none"
    /\ effect = "none"
    /\ result = NoResult
    /\ archive = <<>>
    /\ decoder = "fresh"
    /\ destination = {}
    /\ scope = "none"
    /\ pending = "none"
    /\ written = <<>>
    /\ cwd = AtImport("A")
    /\ staging = NoStaging

Construct(l, md, r) ==
    /\ handle = "Unopened"
    /\ result.op = "none"
    /\ layer' = l
    /\ mode' = md
    /\ handle' = r.handle
    /\ handler' = r.handler
    /\ hmode' = r.hmode
    /\ effect' = r.effect
    /\ result' = [op |-> "open", err |-> r.err]
    /\ UNCHANGED <<staging, cwd, suffixes, exists, content, archive, decoder, destination, scope, pending, written>>

\* ArchiveFile(file, mode)
OpenArchiveFile ==
    \E md \in OpenArchiveMode :
        Construct("facade", md, initialize_handler(suffixes, exists, content, md))

\* ZipFileAdapter(file, mode)
OpenZipFileAdapter ==
    \E md \in OpenArchiveMode :
        Construct("ZipFileAdapter", md, ZipFileAdapter_init(md, exists, content))

\* TarFileAdapter(file, mode)
OpenTarFileAdapter ==
    \E md \in OpenArchiveMode :
        Construct("TarFileAdapter", md, TarFileAdapter_init(md, exists, content))

\* SevenZipFileAdapter(file, mode)
OpenSevenZipFileAdapter ==
    \E md \in OpenArchiveMode :
        Construct("SevenZipFileAdapter", md, SevenZipFileAdapter_init(md, exists, content))

\* RarFileAdapter(file, mode)
OpenRarFileAdapter ==
    \E md \in OpenArchiveMode :
        Construct("RarFileAdapter", md, RarFileAdapter_init(md, exists, content))

\* The facade, and the 7z and rar adapters constructed directly
NextOpen ==
    \/ OpenArchiveFile
    \/ OpenSevenZipFileAdapter
    \/ OpenRarFileAdapter

SpecOpen == InitOpen /\ [][NextOpen]_vars

\* The adapters constructed directly: they never look at the name
InitAdapterOpen ==
    /\ InitOpen
    /\ Len(suffixes) = 1

NextAdapterOpen ==
    \/ OpenZipFileAdapter
    \/ OpenTarFileAdapter
    \/ OpenSevenZipFileAdapter
    \/ OpenRarFileAdapter

SpecAdapterOpen == InitAdapterOpen /\ [][NextAdapterOpen]_vars

----------------------------------------------------------------------------
(* Member names and paths.                                                 *)
(* A name is the sequence of its '/'-separated parts: "d/f" is <<"d","f">>,*)
(* "d/" is <<"d","">>, "/x" is <<"","x">>.  A path on disk is a name       *)
(* without "" and "." parts, relative to the destination directory; <<>>   *)
(* is that directory itself, and a path that starts with "/" is absolute.  *)

\* str.endswith("/")
endswith_slash(n) == Len(n) >= 2 /\ n[Len(n)] = ""

\* str.removesuffix("/")
removesuffix_slash(n) == IF endswith_slash(n) THEN SubSeq(n, 1, Len(n) - 1) ELSE n

\* str.rstrip("/")
RECURSIVE rstrip_slash(_)
rstrip_slash(n) == IF endswith_slash(n) THEN rstrip_slash(SubSeq(n, 1, Len(n) - 1)) ELSE n

IsPathPart(c) == c \notin {"", "."}

\* Whether the name starts with '/'
IsAbsolute(n) == Len(n) >= 2 /\ n[1] = ""

\* destination / name, relative to destination: pathlib drops "" and "."
\* parts, keeps ".." parts, and an absolute name replaces the destination
PathOf(n) ==
    IF IsAbsolute(n) THEN <<"/">> \o SelectSeq(n, IsPathPart) ELSE SelectSeq(n, IsPathPart)

\* Whether the path, its ".." parts followed, is the destination or below it
Inside(p) ==
    /\ p = <<>> \/ p[1] # "/"
    /\ \A k \in 1..Len(p) : 2 * Cardinality({ i \in 1..k : p[i] = ".." }) <= k

\* The name with its "", "." and ".." parts removed, as zipfile and rarfile
\* do before they write a member
IsSafePart(c) == c \notin {"", ".", ".."}
Sanitised(n) == SelectSeq(n, IsSafePart)

Prefixes(p) == { SubSeq(p, 1, k) : k \in 0..Len(p) }

\* os.makedirs(p, exist_ok=True) under the destination
MakeDirs(disk, p) ==
    disk \cup { [path |-> q, kind |-> "dir", data |-> <<>>] :
                q \in { r \in Prefixes(p) : ~\E f \in disk : f.path = r } }

\* open(p, "wb").write(data), parents made first
PutFile(disk, p, data) ==
    { f \in MakeDirs(disk, SubSeq(p, 1, Len(p) - 1)) : f.path # p }
        \cup { [path |-> p, kind |-> "file", data |-> data] }

HasPath(disk, p) == \E f \in disk : f.path = p
At(disk, p) == CHOOSE f \in disk : f.path = p

----------------------------------------------------------------------------
(* A codec handle and the filesystem it works on, as one record:           *)
(*   closed   the library object was closed                                *)
(*   hmode    "r" or "w"                                                   *)
(*   entries  the archive's entries in native order,                       *)
(*            each [name, dir, data, bad] (bad: its stored CRC is wrong)   *)
(*   decoder  py7zr's decoder, "fresh" or "used"                           *)
(*   disk     the files under the destination directory                    *)
(* A library call gives [err, val, w]: the exception raised ("none" if it  *)
(* returned), the value returned, and the record after the call.           *)

Ok(v, w) == [err |-> "none", val |-> v, w |-> w]
Err(e, w) == [err |-> e, val |-> "none", w |-> w]

\* The index of the last entry named n, 0 if there is none
FindLast(entries, n) ==
    IF \E i \in DOMAIN entries : entries[i].name = n
    THEN CHOOSE i \in DOMAIN entries :
             /\ entries[i].name = n
             /\ \A j \in DOMAIN entries : entries[j].name = n => j <= i
    ELSE 0

\* The index of the first entry named n, 0 if there is none
FindFirst(entries, n) ==
    IF \E i \in DOMAIN entries : entries[i].name = n
    THEN CHOOSE i \in DOMAIN entries :
             /\ entries[i].name = n
             /\ \A j \in DOMAIN entries : entries[j].name = n => i <= j
    ELSE 0

NameList(entries) == [i \in DOMAIN entries |-> entries[i].name]

\* Writing one entry at path p: under the destination its parents are made;
\* outside of it they are there
ExtractEntryAt(disk, e, p) ==
    IF ~Inside(p)
    THEN disk \cup { [path |-> p, kind |-> IF e.dir THEN "dir" ELSE "file", data |-> e.data] }
    ELSE IF e.dir THEN MakeDirs(disk, p) ELSE PutFile(disk, p, e.data)

\* Writing one entry under the destination
ExtractEntry(disk, e) == ExtractEntryAt(disk, e, PathOf(e.name))

----------------------------------------------------------------------------
(* zipfile.ZipFile: directory entries are named with a trailing '/';       *)
(* the name table stays readable after close.                              *)

\* ZipFile.namelist()
LibZipNamelist(w) == Ok(NameList(w.entries), w)

\* ZipFile.getinfo(name)
LibZipGetinfo(w, n) ==
    IF FindLast(w.entries, n) = 0
    THEN Err("KeyError", w)
    ELSE Ok(w.entries[FindLast(w.entries, n)], w)

\* ZipFile.extract(member=name, path=destination)
LibZipExtract(w, n) ==
    LET i == FindLast(w.entries, n)
        e == w.entries[i]
        p == Sanitised(e.name)
    IN  IF i = 0 THEN Err("KeyError", w)
        ELSE IF e.dir THEN Ok(p, [w EXCEPT !.disk = MakeDirs(w.disk, p)])
        ELSE IF w.closed
        THEN Err("ValueError", [w EXCEPT !.disk = MakeDirs(w.disk, SubSeq(p, 1, Len(p) - 1))])
        ELSE IF e.bad
        THEN Err("BadZipFile", [w EXCEPT !.disk = PutFile(w.disk, p, e.data)])
        ELSE Ok(p, [w EXCEPT !.disk = PutFile(w.disk, p, e.data)])

\* ZipFile.extractall(path=destination, members=names): one member after the other
RECURSIVE LibZipExtractAll(_, _)
LibZipExtractAll(w, names) ==
    IF names = <<>> THEN Ok("none", w)
    ELSE LET r == LibZipExtract(w, Head(names))
         IN  IF r.err # "none" THEN Err(r.err, r.w)
             ELSE LibZipExtractAll(r.w, Tail(names))

\* ZipFile.read(name)
LibZipRead(w, n) ==
    LET i == FindLast(w.entries, n)
        e == w.entries[i]
    IN  IF i = 0 THEN Err("KeyError", w)
        ELSE IF w.closed THEN Err("ValueError", w)
        ELSE IF e.bad THEN Err("BadZipFile", w)
        ELSE Ok(e.data, w)

----------------------------------------------------------------------------
(* tarfile.TarFile: directory entries are named without a trailing '/';    *)
(* every call checks that the archive is open.                             *)

\* TarFile.getnames()
LibTarGetnames(w) ==
    IF w.closed THEN Err("OSError", w) ELSE Ok(NameList(w.entries), w)

\* TarFile.getmember(name)
LibTarGetmember(w, n) ==
    IF w.closed THEN Err("OSError", w)
    ELSE IF FindLast(w.entries, rstrip_slash(n)) = 0 THEN Err("KeyError", w)
    ELSE Ok(w.entries[FindLast(w.entries, rstrip_slash(n))], w)

\* TarFile.extract / extractall on one TarInfo, through the extraction
\* filter: tarfile.data_filter strips a leading '/' and refuses a name that
\* leaves the destination; where tarfile has no data_filter, the filter set
\* in its place lets every name through (w.filter is "data" or "none")
LibTarExtractOne(w, e) ==
    LET p == IF w.filter = "data" /\ IsAbsolute(e.name) THEN Tail(PathOf(e.name))
             ELSE PathOf(e.name)
    IN  IF w.filter = "data" /\ ~Inside(p) THEN Err("OutsideDestinationError", w)
        ELSE IF e.bad
        THEN Err("ReadError", [w EXCEPT !.disk =
                     ExtractEntryAt(w.disk, [e EXCEPT !.data = <<>>], p)])
        ELSE Ok(p, [w EXCEPT !.disk = ExtractEntryAt(w.disk, e, p)])

\* TarFile.extract(member=name, path=destination)
LibTarExtract(w, n) ==
    IF w.closed \/ w.hmode # "r" THEN Err("OSError", w)
    ELSE LET m == LibTarGetmember(w, n)
         IN  IF m.err # "none" THEN Err(m.err, w) ELSE LibTarExtractOne(w, m.val)

\* TarFile.extractall(path=destination, members=tarinfos)
RECURSIVE LibTarExtractAll(_, _)
LibTarExtractAll(w, tarinfos) ==
    IF w.closed \/ w.hmode # "r" THEN Err("OSError", w)
    ELSE IF tarinfos = <<>> THEN Ok("none", w)
    ELSE LET r == LibTarExtractOne(w, Head(tarinfos))
         IN  IF r.err # "none" THEN Err(r.err, r.w)
             ELSE LibTarExtractAll(r.w, Tail(tarinfos))

\* TarFile.extractfile(name) and the read() of what it returns: [none, data],
\* none for the None it returns for an entry that is no regular file
LibTarExtractfile(w, n) ==
    IF w.closed \/ w.hmode # "r" THEN Err("OSError", w)
    ELSE LET m == LibTarGetmember(w, n)
         IN  IF m.err # "none" THEN Err(m.err, w)
             ELSE IF m.val.dir THEN Ok([none |-> TRUE, data |-> <<>>], w)
             ELSE IF m.val.bad THEN Err("ReadError", w)
             ELSE Ok([none |-> FALSE, data |-> m.val.data], w)

----------------------------------------------------------------------------
(* py7zr.SevenZipFile: directory entries are named without a trailing '/'; *)
(* close() releases the file table; the decoder is single-pass: after an   *)
(* extract or read it must be reset() before the next one.  What a decode  *)
(* on a used decoder does is not defined by the library: w.stale is the    *)
(* outcome this run takes, "CrcError" or "empty" (no data is produced).    *)
(* Nor is a decode on a handle opened for writing: there w.stale may also  *)
(* be "data" (the decode works).                                           *)

\* The decoder after a decode: used, if the archive holds any file data
Decoded(w) ==
    IF \E i \in DOMAIN w.entries : w.entries[i].data # <<>> THEN "used" ELSE w.decoder

Undecodable(w) == w.decoder = "used" \/ (w.hmode # "r" /\ w.stale # "data")

\* SevenZipFile.list(), SevenZipFile.getnames()
LibSevenZipList(w) ==
    IF w.closed THEN Err("AttributeError", w) ELSE Ok(w.entries, w)

LibSevenZipGetnames(w) ==
    IF w.closed THEN Err("AttributeError", w) ELSE Ok(NameList(w.entries), w)

\* Whether entry e is among the targets
IsPrefix(a, b) == Len(a) <= Len(b) /\ SubSeq(b, 1, Len(a)) = a

\* targets is [all, names]: all for targets=None, else the names given
AllTargets == [all |-> TRUE, names |-> {}]
TheTargets(names) == [all |-> FALSE, names |-> names]

Targeted(e, targets, recursive) ==
    \/ targets.all
    \/ e.name \in targets.names
    \/ recursive /\ \E t \in targets.names : IsPrefix(t, e.name)

\* The decode loop of extract: entries in archive order, stopping at a bad CRC
RECURSIVE SevenZipDecode(_, _, _, _)
SevenZipDecode(disk, entries, targets, recursive) ==
    IF entries = <<>> THEN [err |-> "none", disk |-> disk]
    ELSE LET e == Head(entries)
         IN  IF ~Targeted(e, targets, recursive)
             THEN SevenZipDecode(disk, Tail(entries), targets, recursive)
             ELSE IF e.bad
             THEN [err |-> "CrcError", disk |-> ExtractEntry(disk, e)]
             ELSE SevenZipDecode(ExtractEntry(disk, e), Tail(entries), targets, recursive)

\* On a used decoder: the entries are created, without their data
RECURSIVE SevenZipDecodeStale(_, _, _, _)
SevenZipDecodeStale(disk, entries, targets, recursive) ==
    IF entries = <<>> THEN disk
    ELSE LET e == Head(entries)
             d == IF Targeted(e, targets, recursive)
                  THEN ExtractEntry(disk, [e EXCEPT !.data = <<>>])
                  ELSE disk
         IN  SevenZipDecodeStale(d, Tail(entries), targets, recursive)

\* SevenZipFile.extract(path=destination, targets=..., recursive=...),
\* SevenZipFile.extractall(path=destination) with targets None; the output
\* path of every target is checked before anything is decoded
LibSevenZipExtract(w, targets, recursive) ==
    IF w.closed THEN Err("AttributeError", w)
    ELSE IF \E i \in DOMAIN w.entries :
                /\ Targeted(w.entries[i], targets, recursive)
                /\ ~Inside(PathOf(w.entries[i].name))
    THEN Err("Bad7zFile", w)
    ELSE IF Undecodable(w)
    THEN IF w.stale = "CrcError" THEN Err("CrcError", w)
         ELSE Ok("none", [w EXCEPT !.disk =
                     SevenZipDecodeStale(w.disk, w.entries, targets, recursive)])
    ELSE LET r == SevenZipDecode(w.disk, w.entries, targets, recursive)
             w2 == [w EXCEPT !.disk = r.disk, !.decoder = Decoded(w)]
         IN  IF r.err # "none" THEN Err(r.err, w2) ELSE Ok("none", w2)

\* SevenZipFile.read(targets=...): a dict from the names of the targeted
\* files (no directory) to their content
LibSevenZipRead(w, targets) ==
    LET files == { i \in DOMAIN w.entries :
                     ~w.entries[i].dir /\ Targeted(w.entries[i], targets, FALSE) }
        names == { w.entries[i].name : i \in files }
    IN  IF w.closed THEN Err("AttributeError", w)
        ELSE IF Undecodable(w)
        THEN IF w.stale = "CrcError" THEN Err("CrcError", w)
             ELSE Ok([n \in names |-> <<>>], w)
        ELSE IF \E i \in files : w.entries[i].bad
        THEN Err("CrcError", [w EXCEPT !.decoder = Decoded(w)])
        ELSE Ok([n \in names |-> w.entries[FindLast(w.entries, n)].data],
                [w EXCEPT !.decoder = Decoded(w)])

\* SevenZipFile.reset()
LibSevenZipReset(w) ==
    IF w.closed THEN Err("AttributeError", w) ELSE Ok("none", [w EXCEPT !.decoder = "fresh"])

----------------------------------------------------------------------------
(* rarfile.RarFile: directory entries are named with a trailing '/', and   *)
(* looked up with or without it; close() releases nothing, the object      *)
(* works as before.                                                        *)

\* RarFile.namelist()
LibRarNamelist(w) == Ok(NameList(w.entries), w)

RarIndex(entries, n) ==
    IF \E i \in DOMAIN entries : rstrip_slash(entries[i].name) = rstrip_slash(n)
    THEN CHOOSE i \in DOMAIN entries :
             /\ rstrip_slash(entries[i].name) = rstrip_slash(n)
             /\ \A j \in DOMAIN entries :
                    rstrip_slash(entries[j].name) = rstrip_slash(n) => j <= i
    ELSE 0

\* RarFile.getinfo(name)
LibRarGetinfo(w, n) ==
    IF RarIndex(w.entries, n) = 0
    THEN Err("NoRarEntry", w)
    ELSE Ok(w.entries[RarIndex(w.entries, n)], w)

\* RarFile.extract(member=name, path=destination)
LibRarExtract(w, n) ==
    LET i == RarIndex(w.entries, n)
        e == w.entries[i]
    IN  IF i = 0 THEN Err("NoRarEntry", w)
        ELSE IF ~e.dir /\ e.bad
        THEN Err("BadRarFile", [w EXCEPT !.disk = PutFile(w.disk, Sanitised(e.name), e.data)])
        ELSE Ok(Sanitised(e.name),
                [w EXCEPT !.disk = ExtractEntryAt(w.disk, e, Sanitised(e.name))])

\* RarFile.extractall(path=destination, members=names): one member after the
\* other; members=None stands for namelist()
RECURSIVE LibRarExtractEach(_, _)
LibRarExtractEach(w, names) ==
    IF names = <<>> THEN Ok("none", w)
    ELSE LET r == LibRarExtract(w, Head(names))
         IN  IF r.err # "none" THEN Err(r.err, r.w)
             ELSE LibRarExtractEach(r.w, Tail(names))

\* members is [none, names]: none for members=None
LibRarExtractAll(w, members) ==
    LibRarExtractEach(w, IF members.none THEN NameList(w.entries) ELSE members.names)

\* RarFile.read(name): a directory has no data to open
LibRarRead(w, n) ==
    LET i == RarIndex(w.entries, n)
        e == w.entries[i]
    IN  IF i = 0 THEN Err("NoRarEntry", w)
        ELSE IF e.dir THEN Err("UnsupportedOperation", w)
        ELSE IF e.bad THEN Err("BadRarFile", w)
        ELSE Ok(e.data, w)

----------------------------------------------------------------------------
(* Helpers shared by the facade and the adapters *)

\* destination.mkdir(parents=True, exist_ok=True)
MkDestination(w) == [w EXCEPT !.disk = MakeDirs(w.disk, <<>>)]

\* _utils.get_member_name on a str: the name as given
get_member_name(member) == member

\* The elements of a sequence, and a set in some order (a Python set iterates
\* in an order of its own)
Range(q) == { q[i] : i \in DOMAIN q }

RECURSIVE InSomeOrder(_)
InSomeOrder(S) ==
    IF S = {} THEN <<>>
    ELSE LET x == CHOOSE x \in S : TRUE IN <<x>> \o InSomeOrder(S \ {x})

\* bytes.decode("utf-8", "strict"): code points as [cp |-> n]; a byte >= 128
\* on its own is no UTF-8
CanDecode(b) == \A i \in DOMAIN b : b[i] < 128
Decode(b) == [i \in DOMAIN b |-> [cp |-> b[i]]]

\* f(...).decode(encoding, errors) on the outcome r of a read_bytes
DecodeResult(r) ==
    IF r.err # "none" THEN r
    ELSE IF ~CanDecode(r.val) THEN Err("UnicodeDecodeError", r.w)
    ELSE Ok(Decode(r.val), r.w)

\* The exception e of the library re-raised as KeyError
AsKeyError(r, e) == IF r.err = e THEN Err("KeyError", r.w) ELSE r

\* return destination / name, once the library call r returned
ReturnPath(r, name) == IF r.err # "none" THEN r ELSE Ok(PathOf(name), r.w)

\* return destination
ReturnDestination(r) == IF r.err # "none" THEN r ELSE Ok(<<>>, r.w)

----------------------------------------------------------------------------
(* ArchiveMember and the conversions to it.  A native entry carries, next  *)
(* to its name and data, the type flag of its header (type) and the packed *)
(* size its container reports for it (compressed).                         *)

\* ArchiveMember(name=, size=, compressed_size=, is_dir=, is_file=): the
\* model validates the field types and keeps the values it is given
ArchiveMember(name, size, compressed_size, is_dir, is_file) ==
    [name |-> name, size |-> size, compressed_size |-> compressed_size,
     is_dir |-> is_dir, is_file |-> is_file]

\* TarInfo.isdir(), TarInfo.isfile(): by the type flag; a link, a device or
\* a fifo is neither
TarInfo_isdir(tarinfo) == tarinfo.type = "DIRTYPE"
TarInfo_isfile(tarinfo) == tarinfo.type \in {"REGTYPE", "AREGTYPE", "CONTTYPE", "GNUTYPE_SPARSE"}

TarMember(tarinfo) ==
    ArchiveMember(tarinfo.name, Len(tarinfo.data), Len(tarinfo.data),
                  TarInfo_isdir(tarinfo), TarInfo_isfile(tarinfo))

\* ZipInfo.is_dir(): the name ends with '/'
ZipMember(zipinfo) ==
    ArchiveMember(zipinfo.name, Len(zipinfo.data), zipinfo.compressed,
                  endswith_slash(zipinfo.name), ~endswith_slash(zipinfo.name))

\* compressed_size = sevenzipinfo.compressed or sevenzipinfo.uncompressed
SevenZipMember(sevenzipinfo) ==
    ArchiveMember(sevenzipinfo.name, Len(sevenzipinfo.data),
                  IF sevenzipinfo.compressed # 0 THEN sevenzipinfo.compressed
                  ELSE Len(sevenzipinfo.data),
                  sevenzipinfo.dir, ~sevenzipinfo.dir)

RarMember(rarinfo) ==
    ArchiveMember(rarinfo.name, Len(rarinfo.data), rarinfo.compressed,
                  endswith_slash(rarinfo.name), ~endswith_slash(rarinfo.name))

\* The conversion applied to what a library call returned
Converted(r, Member(_)) == IF r.err # "none" THEN r ELSE Ok(Member(r.val), r.w)

ConvertedEach(r, Member(_)) ==
    IF r.err # "none" THEN r ELSE Ok([i \in DOMAIN r.val |-> Member(r.val[i])], r.w)

----------------------------------------------------------------------------
(* ZipFileAdapter *)

ZipFileAdapter_get_member(w, member) ==
    Converted(LibZipGetinfo(w, get_member_name(member)), ZipMember)

ZipFileAdapter_get_names(w) == LibZipNamelist(w)

ZipFileAdapter_extract(w, member) ==
    ReturnPath(LibZipExtract(MkDestination(w), get_member_name(member)),
               get_member_name(member))

ZipFileAdapter_extractall(w, members) ==
    LET names == [i \in DOMAIN members |-> get_member_name(members[i])]
    IN  ReturnDestination(
            IF names # <<>>
            THEN LibZipExtractAll(MkDestination(w), names)
            ELSE LibZipExtractAll(MkDestination(w), NameList(w.entries)))

ZipFileAdapter_read_bytes(w, member) == LibZipRead(w, get_member_name(member))

ZipFileAdapter_read_text(w, member) == DecodeResult(ZipFileAdapter_read_bytes(w, member))

----------------------------------------------------------------------------
(* TarFileAdapter *)

TarFileAdapter_get_member(w, member) ==
    Converted(LibTarGetmember(w, get_member_name(member)), TarMember)

TarFileAdapter_get_names(w) == LibTarGetnames(w)

TarFileAdapter_extract(w, member) ==
    ReturnPath(LibTarExtract(MkDestination(w), get_member_name(member)),
               get_member_name(member))

\* names.append(self._tarfile.getmember(...)) for each member, in order
RECURSIVE TarInfos(_, _)
TarInfos(w, members) ==
    IF members = <<>> THEN Ok(<<>>, w)
    ELSE LET m == LibTarGetmember(w, get_member_name(Head(members)))
             rest == TarInfos(w, Tail(members))
         IN  IF m.err # "none" THEN Err(m.err, w)
             ELSE IF rest.err # "none" THEN rest
             ELSE Ok(<<m.val>> \o rest.val, w)

TarFileAdapter_extractall(w, members) ==
    LET w1 == MkDestination(w)
        infos == TarInfos(w1, members)
    IN  ReturnDestination(
            IF members # <<>>
            THEN IF infos.err # "none" THEN infos ELSE LibTarExtractAll(w1, infos.val)
            ELSE LibTarExtractAll(w1, w1.entries))

TarFileAdapter_read_bytes(w, member) ==
    LET r == LibTarExtractfile(w, get_member_name(member))
    IN  IF r.err # "none" THEN r
        ELSE IF r.val.none THEN Ok(<<>>, r.w)
        ELSE Ok(r.val.data, r.w)

TarFileAdapter_read_text(w, member) == DecodeResult(TarFileAdapter_read_bytes(w, member))

----------------------------------------------------------------------------
(* SevenZipFileAdapter *)

SevenZipFileAdapter_get_member(w, member) ==
    LET name == removesuffix_slash(get_member_name(member))
        listed == LibSevenZipList(w)
    IN  IF listed.err # "none" THEN listed
        ELSE IF FindFirst(listed.val, name) = 0 THEN Err("KeyError", w)
        ELSE Ok(SevenZipMember(listed.val[FindFirst(listed.val, name)]), w)

SevenZipFileAdapter_get_names(w) == LibSevenZipGetnames(w)

\* self._sevenzipfile.reset() after the library call r returned; a call that
\* raised leaves the method before the reset
ThenReset(r) ==
    IF r.err # "none" THEN r
    ELSE LET z == LibSevenZipReset(r.w)
         IN  IF z.err # "none" THEN Err(z.err, z.w) ELSE [r EXCEPT !.w = z.w]

SevenZipFileAdapter_extract(w, member) ==
    LET w1 == MkDestination(w)
        name == removesuffix_slash(get_member_name(member))
        names == SevenZipFileAdapter_get_names(w1)
    IN  IF names.err # "none" THEN names
        ELSE IF name \in Range(names.val)
        THEN ReturnPath(ThenReset(LibSevenZipExtract(w1, TheTargets({name}), TRUE)), name)
        ELSE Err("KeyError", w1)

SevenZipFileAdapter_extractall(w, members) ==
    LET w1 == MkDestination(w)
        all_members == LibSevenZipGetnames(w1)
        names == { removesuffix_slash(get_member_name(members[i])) : i \in DOMAIN members }
    IN  IF members # <<>> /\ all_members.err # "none" THEN all_members
        ELSE IF members # <<>> /\ \E n \in names : n \notin Range(all_members.val)
        THEN Err("KeyError", w1)
        ELSE ReturnDestination(ThenReset(
                 IF names # {}
                 THEN LibSevenZipExtract(w1, TheTargets(names), TRUE)
                 ELSE LibSevenZipExtract(w1, AllTargets, FALSE)))

SevenZipFileAdapter_read_bytes(w, member) ==
    LET name == removesuffix_slash(get_member_name(member))
        names == LibSevenZipGetnames(w)
        data == ThenReset(LibSevenZipRead(w, TheTargets({name})))
    IN  IF names.err # "none" THEN names
        ELSE IF name \notin Range(names.val) THEN Err("KeyError", w)
        ELSE IF data.err # "none" THEN data
        ELSE IF name \in DOMAIN data.val THEN Ok(data.val[name], data.w)
        ELSE Ok(<<>>, data.w)

SevenZipFileAdapter_read_text(w, member) ==
    DecodeResult(SevenZipFileAdapter_read_bytes(w, member))

----------------------------------------------------------------------------
(* RarFileAdapter *)

RarFileAdapter_get_member(w, member) ==
    Converted(AsKeyError(LibRarGetinfo(w, get_member_name(member)), "NoRarEntry"), RarMember)

RarFileAdapter_get_names(w) == LibRarNamelist(w)

RarFileAdapter_extract(w, member) ==
    ReturnPath(AsKeyError(LibRarExtract(MkDestination(w), get_member_name(member)),
                          "NoRarEntry"),
               get_member_name(member))

RarFileAdapter_extractall(w, members) ==
    LET w1 == MkDestination(w)
        all_members == Range(LibRarNamelist(w1).val)
        names == { get_member_name(members[i]) : i \in DOMAIN members }
    IN  IF \E n \in names : n \notin all_members
        THEN Err("KeyError", w1)
        ELSE ReturnDestination(
                 LibRarExtractAll(w1, [none |-> FALSE, names |-> InSomeOrder(names)]))

RarFileAdapter_read_bytes(w, member) ==
    IF endswith_slash(get_member_name(member))
    THEN Ok(<<>>, w)
    ELSE AsKeyError(LibRarRead(w, get_member_name(member)), "NoRarEntry")

RarFileAdapter_read_text(w, member) == DecodeResult(RarFileAdapter_read_bytes(w, member))

----------------------------------------------------------------------------
(* ArchiveFile, the facade: every method branches on the type of           *)
(* self._handler, here kind: "tar", "zip", "7z" or "rar".                  *)

ArchiveFile_get_member(kind, w, member) ==
    CASE kind = "tar" -> Converted(LibTarGetmember(w, member), TarMember)
      [] kind = "zip" -> Converted(LibZipGetinfo(w, member), ZipMember)
      [] kind = "7z" ->
            LET member_list == LibSevenZipList(w)
                found == SelectSeq(member_list.val,
                                   LAMBDA fileinfo : fileinfo.name = removesuffix_slash(member))
            IN  IF member_list.err # "none" THEN member_list
                ELSE IF found = <<>> THEN Err("IndexError", w)
                ELSE Ok(SevenZipMember(found[1]), w)
      [] OTHER -> Converted(LibRarGetinfo(w, member), RarMember)

ArchiveFile_get_names(kind, w) ==
    CASE kind = "tar" -> LibTarGetnames(w)
      [] kind = "zip" -> LibZipNamelist(w)
      [] kind = "7z" -> LibSevenZipGetnames(w)
      [] OTHER -> LibRarNamelist(w)

\* tuple([self.get_member(name) for name in names])
RECURSIVE GetEach(_, _, _)
GetEach(kind, w, names) ==
    IF names = <<>> THEN Ok(<<>>, w)
    ELSE LET m == ArchiveFile_get_member(kind, w, Head(names))
             rest == GetEach(kind, w, Tail(names))
         IN  IF m.err # "none" THEN Err(m.err, w)
             ELSE IF rest.err # "none" THEN rest
             ELSE Ok(<<m.val>> \o rest.val, w)

\* The names of a sequence, last first
Reversed(names) == [i \in DOMAIN names |-> names[Len(names) + 1 - i]]

ArchiveFile_get_members_Reversed(kind, w) ==
    LET names == ArchiveFile_get_names(kind, w)
    IN  IF names.err # "none" THEN names ELSE GetEach(kind, w, Reversed(names.val))

ArchiveFile_get_members(kind, w) ==
    LET names == ArchiveFile_get_names(kind, w)
    IN  IF names.err # "none" THEN names ELSE GetEach(kind, w, names.val)

ArchiveFile_extract(kind, w, member) ==
    LET w1 == MkDestination(w)
    IN  ReturnPath(
            CASE kind = "tar" -> LibTarExtract(w1, member)
              [] kind = "zip" -> LibZipExtract(w1, member)
              [] kind = "7z" -> LibSevenZipExtract(w1, TheTargets({member}), FALSE)
              [] OTHER -> LibRarExtract(w1, member),
            member)

ArchiveFile_extractall(kind, w, members) ==
    LET w1 == MkDestination(w)
        names == members
        tar_members == TarInfos(w1, names)
    IN  ReturnDestination(
            CASE kind = "tar" ->
                    IF names # <<>>
                    THEN IF tar_members.err # "none" THEN tar_members
                         ELSE LibTarExtractAll(w1, tar_members.val)
                    ELSE LibTarExtractAll(w1, w1.entries)
              [] kind = "zip" ->
                    IF names # <<>>
                    THEN LibZipExtractAll(w1, names)
                    ELSE LibZipExtractAll(w1, NameList(w1.entries))
              [] kind = "7z" ->
                    IF names # <<>>
                    THEN LibSevenZipExtract(w1, TheTargets(Range(names)), FALSE)
                    ELSE LibSevenZipExtract(w1, AllTargets, FALSE)
              [] OTHER ->
                    LibRarExtractAll(w1, [none |-> FALSE, names |-> names]))

\* Path.read_bytes() on destination / member
ReadPath(r) ==
    IF r.err # "none" THEN r
    ELSE IF ~HasPath(r.w.disk, r.val) THEN Err("FileNotFoundError", r.w)
    ELSE IF At(r.w.disk, r.val).kind = "dir" THEN Err("IsADirectoryError", r.w)
    ELSE Ok(At(r.w.disk, r.val).data, r.w)

\* TemporaryDirectory.cleanup(): the directory and all that is in it are
\* removed; what the body wrote outside of it stays
cleanup(disk) == { f \in disk : ~Inside(f.path) }

\* A slip: the directory is removed when the body returns, and stays when
\* it raises.
InTemporaryDirectory_OnReturn(w, r) ==
    [r EXCEPT !.w.disk = w.disk,
              !.w.staging = [held |-> r.w.disk,
                             left |-> w.staging.left \cup
                                      (IF r.err = "none" THEN cleanup(r.w.disk) ELSE r.w.disk)]]

\* with TemporaryDirectory(ignore_cleanup_errors=True) as tmpdir: the body
\* works in a directory of its own, r is its outcome; the with statement
\* cleans up when it is left, by return or by exception
InTemporaryDirectory(w, r) ==
    [r EXCEPT !.w.disk = w.disk,
              !.w.staging = [held |-> r.w.disk,
                             left |-> w.staging.left \cup cleanup(r.w.disk)]]

ArchiveFile_read_bytes(kind, w, member) ==
    InTemporaryDirectory(w,
        ReadPath(ArchiveFile_extract(kind, [w EXCEPT !.disk = {}], member)))

ArchiveFile_read_text(kind, w, member) ==
    InTemporaryDirectory(w,
        DecodeResult(ReadPath(ArchiveFile_extract(kind, [w EXCEPT !.disk = {}], member))))

----------------------------------------------------------------------------
(* _enums.py: CompressionType, and the compression a zip member is        *)
(* written with: [compress_type, compresslevel], None where none is given. *)

STORED == 0
DEFLATED == 8
BZIP2 == 12
LZMA == 14

\* None, where a number is expected
None == -1

NoCompression == [compress_type |-> None, compresslevel |-> None]

\* if compression_type == CompressionType.BZIP2:
\*     if compression_level == 0: compression_level = 1
bzip2_floor(c) ==
    IF c.compress_type = BZIP2 /\ c.compresslevel = 0
    THEN [c EXCEPT !.compresslevel = 1]
    ELSE c

----------------------------------------------------------------------------
(* Writing one member.  A file on disk is [name, is_file, is_dir, data],  *)
(* name its last path component; an arcname is a name, <<>> for None.      *)

Append1(w, name, isdir, data) ==
    [w EXCEPT !.entries = Append(w.entries,
                                 [name |-> name, dir |-> isdir, data |-> data, bad |-> FALSE,
                                  type |-> IF isdir THEN "DIRTYPE" ELSE "REGTYPE",
                                  compressed |-> Len(data), codec |-> NoCompression])]

\* The entry zipfile appends, compressed as the call asked
AppendZip(w, name, isdir, data, c) ==
    LET w1 == Append1(w, name, isdir, data)
    IN  [w1 EXCEPT !.entries[Len(w1.entries)].codec = c]

\* bz2.BZ2Compressor(compresslevel) takes the levels 1 to 9
BadCompression(c) == c.compress_type = BZIP2 /\ c.compresslevel = 0

\* ZipFile.writestr(name, data, compress_type=, compresslevel=): a name with
\* a trailing '/' is flagged a directory
LibZipWritestr(w, name, data, c) ==
    IF w.closed \/ w.hmode = "r" THEN Err("ValueError", w)
    ELSE IF BadCompression(c) THEN Err("ValueError", w)
    ELSE Ok("none", AppendZip(w, name, endswith_slash(name), data, c))

\* ZipFile.write(file, arcname=arcname, compress_type=, compresslevel=)
LibZipWrite(w, file, arcname, c) ==
    IF w.closed \/ w.hmode = "r" THEN Err("ValueError", w)
    ELSE IF BadCompression(c) THEN Err("ValueError", w)
    ELSE Ok("none", AppendZip(w, arcname, FALSE, file.data, c))

\* TarFile.addfile(TarInfo(name), BytesIO(data))
LibTarAddfile(w, name, data) ==
    IF w.closed \/ w.hmode = "r" THEN Err("OSError", w)
    ELSE Ok("none", Append1(w, name, FALSE, data))

\* TarFile.add(file, arcname=arcname)
LibTarAdd(w, file, arcname) ==
    IF w.closed \/ w.hmode = "r" THEN Err("OSError", w)
    ELSE Ok("none", Append1(w, arcname, FALSE, file.data))

\* SevenZipFile.writestr(data=data, arcname=name), on a handle open for writing
LibSevenZipWritestr(w, data, name) == Ok("none", Append1(w, name, FALSE, data))

\* SevenZipFile.write(file, arcname=arcname), on a handle open for writing
LibSevenZipWrite(w, file, arcname) == Ok("none", Append1(w, arcname, FALSE, file.data))

\* if arcname is None: arcname = file.name
ArcnameOf(file, arcname) == IF arcname = <<>> THEN <<file.name>> ELSE arcname

\* A slip: the file is handed to the codec without a look at what it is.
ArchiveFile_write_Unchecked(kind, w, file, arcname, c) ==
    CASE kind = "tar" -> LibTarAdd(w, file, ArcnameOf(file, arcname))
      [] kind = "zip" -> LibZipWrite(w, file, ArcnameOf(file, arcname), bzip2_floor(c))
      [] kind = "7z" -> LibSevenZipWrite(w, file, ArcnameOf(file, arcname))
      [] OTHER -> Err("UnsupportedArchiveOperation", w)

ArchiveFile_write(kind, w, file, arcname, c) ==
    IF ~file.is_file THEN Err("UnsupportedArchiveOperation", w)
    ELSE CASE kind = "tar" -> LibTarAdd(w, file, ArcnameOf(file, arcname))
           [] kind = "zip" -> LibZipWrite(w, file, ArcnameOf(file, arcname), bzip2_floor(c))
           [] kind = "7z" -> LibSevenZipWrite(w, file, ArcnameOf(file, arcname))
           [] OTHER -> Err("UnsupportedArchiveOperation", w)

\* The file tmpdir / arcname that holds data
TmpFile(data, arcname) ==
    [name |-> IF arcname = <<>> THEN "" ELSE arcname[Len(arcname)],
     is_file |-> TRUE, is_dir |-> FALSE, data |-> data]

\* arcname = Path(arcname); the data goes to tmpdir / arcname, and that file
\* is written under arcname
ArchiveFile_write_bytes(kind, w, data, arcname, c) ==
    InTemporaryDirectory(w,
        ArchiveFile_write(kind, [w EXCEPT !.disk = PutFile({}, PathOf(arcname), data)],
                          TmpFile(data, PathOf(arcname)), PathOf(arcname), c))

ZipFileAdapter_write(w, file, arcname, c) ==
    IF ~file.is_file THEN Err("ValueError", w)
    ELSE LibZipWrite(w, file, ArcnameOf(file, arcname), bzip2_floor(c))

ZipFileAdapter_write_bytes(w, data, arcname, c) ==
    LibZipWritestr(w, get_member_name(arcname), data, c)

TarFileAdapter_write(w, file, arcname) ==
    IF ~file.is_file THEN Err("ValueError", w)
    ELSE LibTarAdd(w, file, ArcnameOf(file, arcname))

TarFileAdapter_write_bytes(w, data, arcname) ==
    LibTarAddfile(w, get_member_name(arcname), data)

SevenZipFileAdapter_write(w, file, arcname) ==
    IF ~file.is_file THEN Err("ValueError", w)
    ELSE LibSevenZipWrite(w, file, ArcnameOf(file, arcname))

SevenZipFileAdapter_write_bytes(w, data, arcname) ==
    LibSevenZipWritestr(w, data, get_member_name(arcname))

RarFileAdapter_write(w, file, arcname) == Err("NotImplementedError", w)

RarFileAdapter_write_bytes(w, data, arcname) == Err("NotImplementedError", w)

----------------------------------------------------------------------------
(* get_members of the adapters, iterated to its end *)

ZipFileAdapter_get_members(w) == ConvertedEach(Ok(w.entries, w), ZipMember)

TarFileAdapter_get_members(w) ==
    ConvertedEach(IF w.closed THEN Err("OSError", w) ELSE Ok(w.entries, w), TarMember)

SevenZipFileAdapter_get_members(w) == ConvertedEach(LibSevenZipList(w), SevenZipMember)

RarFileAdapter_get_members(w) == ConvertedEach(Ok(w.entries, w), RarMember)

----------------------------------------------------------------------------
(* close() and the with statement, the same in the facade and in every     *)
(* adapter.                                                                *)

\* The close() of the codec: zipfile, tarfile and rarfile return at once on
\* a closed handle; py7zr releases its tables when it closes and goes
\* through them again on a second close
LibClose(kind, w) ==
    IF kind = "7z" /\ w.closed
    THEN Err("AttributeError", w)
    ELSE Ok("none", [w EXCEPT !.closed = TRUE])

\* close(): self._handler.close()
close(kind, w) == LibClose(kind, w)

\* __exit__(type, value, traceback): self._handler.close(); it returns None,
\* so the exception value of the body is not suppressed, and an exception of
\* close() takes its place. [err, w]
exit(kind, w, value) ==
    LET r == close(kind, w)
    IN  [err |-> IF r.err # "none" THEN r.err ELSE value, w |-> r.w]

----------------------------------------------------------------------------
(* The archives and the arguments of the operations specification.         *)

MaxMembers == 2
MaxRequest == 2

\* The members an archive is made of, in the order it lists them: a
\* directory, a file in it, a file whose stored CRC is wrong, and a file
\* that is no UTF-8
Pool ==
    << [name |-> <<"d">>, dir |-> TRUE, data |-> <<>>, bad |-> FALSE],
       [name |-> <<"d", "f">>, dir |-> FALSE, data |-> <<104, 105>>, bad |-> FALSE],
       [name |-> <<"b">>, dir |-> FALSE, data |-> <<104>>, bad |-> TRUE],
       [name |-> <<"g">>, dir |-> FALSE, data |-> <<255>>, bad |-> FALSE] >>

\* The name an entry is stored under: zip and rar name a directory "d/"
Native(kind, m) ==
    [name |-> IF m.dir /\ kind \in {"zip", "rar"} THEN m.name \o <<"">> ELSE m.name,
     dir |-> m.dir, data |-> m.data, bad |-> m.bad,
     type |-> IF m.dir THEN "DIRTYPE" ELSE "REGTYPE", compressed |-> Len(m.data),
     codec |-> NoCompression]

\* The i-th smallest element of a set of numbers
Nth(S, i) == CHOOSE k \in S : Cardinality({ j \in S : j < k }) = i - 1

\* The archives of at most MaxMembers members of the pool
Archives(kind) ==
    { [i \in 1..Cardinality(S) |-> Native(kind, Pool[Nth(S, i)])] :
        S \in { S \in SUBSET DOMAIN Pool : Cardinality(S) <= MaxMembers } }

\* Member names a caller passes: those of the pool, with and without a
\* trailing '/', and names of no entry
MemberNames ==
    { <<"d">>, <<"d", "">>, <<"d", "f">>, <<"g">>, <<"b">>, <<"x">>, <<"x", "">> }

RequestNames == { <<"g">>, <<"x">> }
Requests == UNION { [1..n -> RequestNames] : n \in 0..MaxRequest }

Kinds == {"tar", "zip", "7z", "rar"}

AdapterOf(kind) ==
    CASE kind = "tar" -> "TarFileAdapter"
      [] kind = "zip" -> "ZipFileAdapter"
      [] kind = "7z" -> "SevenZipFileAdapter"
      [] OTHER -> "RarFileAdapter"

----------------------------------------------------------------------------
(* The operations specification: a handle opened for reading on an archive *)
(* of the pool, by the facade or by the adapter of its format, and the     *)
(* calls made on it.  Every call gets a destination directory of its own.  *)

Extension(kind) ==
    CASE kind = "tar" -> ".tar"
      [] kind = "zip" -> ".zip"
      [] kind = "7z" -> ".7z"
      [] OTHER -> ".rar"

\* The constructor of layer l on an archive of the kind, there or not yet
Constructed(l, kind, md, ex) ==
    LET c == IF ex THEN {kind} ELSE {}
    IN  CASE l = "facade" -> initialize_handler(<<Extension(kind)>>, ex, c, md)
          [] l = "TarFileAdapter" -> TarFileAdapter_init(md, ex, c)
          [] l = "ZipFileAdapter" -> ZipFileAdapter_init(md, ex, c)
          [] l = "SevenZipFileAdapter" -> SevenZipFileAdapter_init(md, ex, c)
          [] OTHER -> RarFileAdapter_init(md, ex, c)

Init ==
    \E kind \in Kinds :
        /\ suffixes = <<Extension(kind)>>
        /\ exists = TRUE
        /\ content = {kind}
        /\ layer \in {"facade", AdapterOf(kind)}
        /\ mode = "r"
        /\ handle = Constructed(layer, kind, mode, TRUE).handle
        /\ handler = Constructed(layer, kind, mode, TRUE).handler
        /\ hmode = Constructed(layer, kind, mode, TRUE).hmode
        /\ effect = Constructed(layer, kind, mode, TRUE).effect
        /\ handle = "Open"
        /\ result = NoResult
        /\ archive \in Archives(kind)
        /\ decoder = "fresh"
        /\ destination = {}
        /\ scope \in {"none", "with"}
        /\ pending = "none"
        /\ written = <<>>
        /\ cwd = AtImport("A")
        /\ staging = NoStaging

\* The codec and the filesystem a call starts on; stale is what this run's
\* py7zr does on a used decoder
Stale == IF decoder = "used" THEN {"CrcError", "empty"} ELSE {"empty"}

World(stale) ==
    [closed |-> handle = "Closed", hmode |-> ModeHead(hmode), entries |-> archive,
     decoder |-> decoder, disk |-> {}, stale |-> stale, filter |-> "data",
     staging |-> staging]

get_member(l, kind, w, member) ==
    CASE l = "facade" -> ArchiveFile_get_member(kind, w, member)
      [] l = "TarFileAdapter" -> TarFileAdapter_get_member(w, member)
      [] l = "ZipFileAdapter" -> ZipFileAdapter_get_member(w, member)
      [] l = "SevenZipFileAdapter" -> SevenZipFileAdapter_get_member(w, member)
      [] OTHER -> RarFileAdapter_get_member(w, member)

get_members(l, kind, w) ==
    CASE l = "facade" -> ArchiveFile_get_members(kind, w)
      [] l = "TarFileAdapter" -> TarFileAdapter_get_members(w)
      [] l = "ZipFileAdapter" -> ZipFileAdapter_get_members(w)
      [] l = "SevenZipFileAdapter" -> SevenZipFileAdapter_get_members(w)
      [] OTHER -> RarFileAdapter_get_members(w)

get_names(l, kind, w) ==
    CASE l = "facade" -> ArchiveFile_get_names(kind, w)
      [] l = "TarFileAdapter" -> TarFileAdapter_get_names(w)
      [] l = "ZipFileAdapter" -> ZipFileAdapter_get_names(w)
      [] l = "SevenZipFileAdapter" -> SevenZipFileAdapter_get_names(w)
      [] OTHER -> RarFileAdapter_get_names(w)

extract(l, kind, w, member) ==
    CASE l = "facade" -> ArchiveFile_extract(kind, w, member)
      [] l = "TarFileAdapter" -> TarFileAdapter_extract(w, member)
      [] l = "ZipFileAdapter" -> ZipFileAdapter_extract(w, member)
      [] l = "SevenZipFileAdapter" -> SevenZipFileAdapter_extract(w, member)
      [] OTHER -> RarFileAdapter_extract(w, member)

extractall(l, kind, w, members) ==
    CASE l = "facade" -> ArchiveFile_extractall(kind, w, members)
      [] l = "TarFileAdapter" -> TarFileAdapter_extractall(w, members)
      [] l = "ZipFileAdapter" -> ZipFileAdapter_extractall(w, members)
      [] l = "SevenZipFileAdapter" -> SevenZipFileAdapter_extractall(w, members)
      [] OTHER -> RarFileAdapter_extractall(w, members)

read_bytes(l, kind, w, member) ==
    CASE l = "facade" -> ArchiveFile_read_bytes(kind, w, member)
      [] l = "TarFileAdapter" -> TarFileAdapter_read_bytes(w, member)
      [] l = "ZipFileAdapter" -> ZipFileAdapter_read_bytes(w, member)
      [] l = "SevenZipFileAdapter" -> SevenZipFileAdapter_read_bytes(w, member)
      [] OTHER -> RarFileAdapter_read_bytes(w, member)

read_text(l, kind, w, member) ==
    CASE l = "facade" -> ArchiveFile_read_text(kind, w, member)
      [] l = "TarFileAdapter" -> TarFileAdapter_read_text(w, member)
      [] l = "ZipFileAdapter" -> ZipFileAdapter_read_text(w, member)
      [] l = "SevenZipFileAdapter" -> SevenZipFileAdapter_read_text(w, member)
      [] OTHER -> RarFileAdapter_read_text(w, member)

\* One call, made and returned or raised: r is its outcome.  In the body of
\* a with statement the first exception ends the body.
Call(op, arg, r) ==
    /\ handle \in {"Open", "Closed"}
    /\ scope = "with" => pending = "none"
    /\ result' = [op |-> op, arg |-> arg, err |-> r.err, val |-> r.val, on |-> handle,
                  pre |-> [decoder |-> decoder, archive |-> archive]]
    /\ decoder' = r.w.decoder
    /\ archive' = r.w.entries
    /\ destination' = r.w.disk
    /\ pending' = IF scope = "with" THEN r.err ELSE pending
    /\ written' = IF op = "write_bytes" /\ r.err = "none"
                  THEN [n \in DOMAIN written \cup {arg.arcname} |->
                           IF n = arg.arcname THEN arg.data ELSE written[n]]
                  ELSE written
    /\ staging' = r.w.staging
    /\ UNCHANGED <<cwd, suffixes, exists, content, layer, mode, handle, handler, hmode, effect, scope>>

GetMember ==
    \E member \in MemberNames, stale \in Stale :
        Call("get_member", member, get_member(layer, handler, World(stale), member))

GetMembers ==
    \E stale \in Stale : Call("get_members", <<>>, get_members(layer, handler, World(stale)))

GetNames ==
    \E stale \in Stale : Call("get_names", <<>>, get_names(layer, handler, World(stale)))

Extract ==
    \E member \in MemberNames, stale \in Stale :
        Call("extract", member, extract(layer, handler, World(stale), member))

ExtractAll ==
    \E members \in Requests, stale \in Stale :
        Call("extractall", members, extractall(layer, handler, World(stale), members))

ReadBytes ==
    \E member \in MemberNames, stale \in Stale :
        Call("read_bytes", member, read_bytes(layer, handler, World(stale), member))

ReadText ==
    \E member \in MemberNames, stale \in Stale :
        Call("read_text", member, read_text(layer, handler, World(stale), member))

\* close(), outside a with statement or in its body, on a handle open or closed
Close ==
    /\ handle \in {"Open", "Closed"}
    /\ scope = "with" => pending = "none"
    /\ LET r == close(handler, World("empty"))
       IN  /\ handle' = IF r.w.closed THEN "Closed" ELSE handle
           /\ result' = [op |-> "close", arg |-> <<>>, err |-> r.err, val |-> "none",
                         on |-> handle, pre |-> [decoder |-> decoder, archive |-> archive]]
           /\ pending' = IF scope = "with" THEN r.err ELSE pending
    /\ UNCHANGED <<staging, cwd, suffixes, exists, content, layer, mode, handler, hmode, effect,
                   archive, decoder, destination, scope, written>>

\* The with statement is left, its body done or ended by an exception:
\* __exit__ runs, and the exception goes on to the caller, or the one of
\* __exit__ itself
ExitWith ==
    /\ scope = "with"
    /\ scope' = "exited"
    /\ LET r == exit(handler, World("empty"), pending)
       IN  /\ handle' = IF r.w.closed THEN "Closed" ELSE handle
           /\ result' = [op |-> "__exit__", arg |-> pending, err |-> r.err,
                         val |-> "none", on |-> handle,
                         pre |-> [decoder |-> decoder, archive |-> archive]]
    /\ UNCHANGED <<staging, cwd, suffixes, exists, content, layer, mode, handler, hmode, effect,
                   archive, decoder, destination, pending, written>>

Next ==
    \/ GetMember
    \/ GetMembers
    \/ GetNames
    \/ Extract
    \/ ExtractAll
    \/ ReadBytes
    \/ ReadText
    \/ Close
    \/ ExitWith

Spec == Init /\ [][Next]_vars

----------------------------------------------------------------------------
(* The round-trip specification: a new archive opened for writing, members *)
(* written, read back from that handle, or after close from a handle       *)
(* opened for reading on the archive.                                      *)

MaxWrites == 2

\* Names to write under: plain, in a directory, with a trailing '/', with a
\* leading "./"
ArcNames == { <<"a">>, <<"d", "a">>, <<"a", "">>, <<".", "a">> }

ByteStrings == { <<>>, <<104>>, <<255, 0>> }

WriteKinds == {"tar", "zip", "7z"}

InitRoundTrip ==
    \E kind \in WriteKinds :
        /\ suffixes = <<Extension(kind)>>
        /\ exists = FALSE
        /\ content = {}
        /\ layer \in {"facade", AdapterOf(kind)}
        /\ mode \in {"w", "a"}
        /\ handle = Constructed(layer, kind, mode, FALSE).handle
        /\ handler = Constructed(layer, kind, mode, FALSE).handler
        /\ hmode = Constructed(layer, kind, mode, FALSE).hmode
        /\ effect = Constructed(layer, kind, mode, FALSE).effect
        /\ handle = "Open"
        /\ result = NoResult
        /\ archive = <<>>
        /\ decoder = "fresh"
        /\ destination = {}
        /\ scope = "none"
        /\ pending = "none"
        /\ written = <<>>
        /\ cwd = AtImport("A")
        /\ staging = NoStaging

write_bytes(l, kind, w, data, arcname, c) ==
    CASE l = "facade" -> ArchiveFile_write_bytes(kind, w, data, arcname, c)
      [] l = "TarFileAdapter" -> TarFileAdapter_write_bytes(w, data, arcname)
      [] l = "ZipFileAdapter" -> ZipFileAdapter_write_bytes(w, data, arcname, c)
      [] l = "SevenZipFileAdapter" -> SevenZipFileAdapter_write_bytes(w, data, arcname)
      [] OTHER -> RarFileAdapter_write_bytes(w, data, arcname)

\* write_bytes(data, arcname=arcname) on the handle open for writing
WriteBytes ==
    /\ handle = "Open"
    /\ ModeHead(hmode) # "r"
    /\ Len(archive) < MaxWrites
    /\ \E arcname \in ArcNames, data \in ByteStrings :
          Call("write_bytes", [arcname |-> arcname, data |-> data],
               write_bytes(layer, handler, World("empty"), data, arcname, NoCompression))

\* read_bytes(name) of a name written, on whichever handle there is
ReadBack ==
    \E member \in DOMAIN written,
       stale \in (IF ModeHead(hmode) = "r" THEN Stale ELSE {"CrcError", "empty", "data"}) :
        Call("read_bytes", member, read_bytes(layer, handler, World(stale), member))

\* The archive closed, a handle is opened on it for reading
Reopen ==
    /\ handle = "Closed"
    /\ ModeHead(hmode) # "r"
    /\ exists' = TRUE
    /\ content' = {handler}
    /\ mode' = "r"
    /\ handle' = Constructed(layer, handler, "r", TRUE).handle
    /\ hmode' = Constructed(layer, handler, "r", TRUE).hmode
    /\ effect' = Constructed(layer, handler, "r", TRUE).effect
    /\ decoder' = "fresh"
    /\ result' = [op |-> "open", err |-> Constructed(layer, handler, "r", TRUE).err]
    /\ UNCHANGED <<staging, cwd, suffixes, layer, handler, archive, destination, scope, pending, written>>

NextRoundTrip ==
    \/ WriteBytes
    \/ ReadBack
    \/ Close
    \/ Reopen

SpecRoundTrip == InitRoundTrip /\ [][NextRoundTrip]_vars

----------------------------------------------------------------------------
(* The member specification: get_member, get_members and get_names on      *)
(* archives whose entries are of every native type and report every       *)
(* packed size.                                                            *)

\* The type flags a tar header gives an entry without data
TarTypes == {"REGTYPE", "SYMTYPE", "CHRTYPE", "FIFOTYPE"}

\* The native entries of one name: a directory d, a file d/f of two bytes,
\* and an entry g without data, in tar a file, a link, a device or a fifo.
\* A container reports the packed size of its data, or 0.
NativeEntries(kind) ==
    { Native(kind, m) : m \in {Pool[1]} }
    \cup { [name |-> Pool[2].name, dir |-> FALSE, data |-> Pool[2].data, bad |-> FALSE,
            type |-> "REGTYPE", compressed |-> c, codec |-> NoCompression] :
              c \in {0, Len(Pool[2].data)} }
    \cup { [name |-> <<"g">>, dir |-> FALSE, data |-> <<>>, bad |-> FALSE,
            type |-> t, compressed |-> 0, codec |-> NoCompression] :
              t \in IF kind = "tar" THEN TarTypes ELSE {"REGTYPE"} }

\* Archives of at most MaxMembers entries of different names, in any order
MemberArchives(kind) ==
    { a \in UNION { [1..n -> NativeEntries(kind)] : n \in 1..MaxMembers } :
        \A i, j \in DOMAIN a : a[i].name = a[j].name => i = j }

InitMember ==
    \E kind \in Kinds :
        /\ suffixes = <<Extension(kind)>>
        /\ exists = TRUE
        /\ content = {kind}
        /\ layer \in {"facade", AdapterOf(kind)}
        /\ mode = "r"
        /\ handle = Constructed(layer, kind, mode, TRUE).handle
        /\ handler = Constructed(layer, kind, mode, TRUE).handler
        /\ hmode = Constructed(layer, kind, mode, TRUE).hmode
        /\ effect = Constructed(layer, kind, mode, TRUE).effect
        /\ handle = "Open"
        /\ result = NoResult
        /\ archive \in MemberArchives(kind)
        /\ decoder = "fresh"
        /\ destination = {}
        /\ scope = "none"
        /\ pending = "none"
        /\ written = <<>>
        /\ cwd = AtImport("A")
        /\ staging = NoStaging

NextMember ==
    \/ GetMember
    \/ GetMembers
    \/ GetNames

SpecMember == InitMember /\ [][NextMember]_vars

----------------------------------------------------------------------------
(* writeall, and the files it walks.  A path is the sequence of its parts  *)
(* below '/', resolved: realpath leaves it as it is.                       *)

\* The files there are: a directory t holding a file a and a directory s
\* with a file b, an empty directory u, and nothing else
Source ==
    { [path |-> <<"t">>, is_file |-> FALSE, is_dir |-> TRUE, data |-> <<>>],
      [path |-> <<"t", "a">>, is_file |-> TRUE, is_dir |-> FALSE, data |-> <<104>>],
      [path |-> <<"t", "s">>, is_file |-> FALSE, is_dir |-> TRUE, data |-> <<>>],
      [path |-> <<"t", "s", "b">>, is_file |-> TRUE, is_dir |-> FALSE, data |-> <<105>>],
      [path |-> <<"u">>, is_file |-> FALSE, is_dir |-> TRUE, data |-> <<>>] }

\* Path(p) as write and writeall see it: [name, path, is_file, is_dir, data]
FileAt(p) ==
    IF \E f \in Source : f.path = p
    THEN LET f == CHOOSE f \in Source : f.path = p
         IN  [name |-> p[Len(p)], path |-> p, is_file |-> f.is_file, is_dir |-> f.is_dir,
              data |-> f.data]
    ELSE [name |-> p[Len(p)], path |-> p, is_file |-> FALSE, is_dir |-> FALSE, data |-> <<>>]

\* dir.parent
Parent(p) == SubSeq(p, 1, Len(p) - 1)

\* dir.rglob("*") if recursive else dir.glob("*"): the paths below dir
Glob(dir, recursive) ==
    { f.path : f \in { f \in Source : /\ IsPrefix(dir, f.path)
                                      /\ Len(f.path) > Len(dir)
                                      /\ (recursive \/ Len(f.path) = Len(dir) + 1) } }

\* The orders a directory walk can yield them in
Orderings(S) == { q \in [1..Cardinality(S) -> S] : Range(q) = S }

\* file.relative_to(root)
relative_to(p, root) == SubSeq(p, Len(root) + 1, Len(p))

\* root as writeall is given it: [given, path], given FALSE for None
RootOf(dir, root) == IF root.given THEN root.path ELSE Parent(dir)

\* self.write of layer l on a handler of the kind
write(l, kind, w, file, arcname, c) ==
    CASE l = "facade" -> ArchiveFile_write(kind, w, file, arcname, c)
      [] l = "TarFileAdapter" -> TarFileAdapter_write(w, file, arcname)
      [] l = "ZipFileAdapter" -> ZipFileAdapter_write(w, file, arcname, c)
      [] l = "SevenZipFileAdapter" -> SevenZipFileAdapter_write(w, file, arcname)
      [] OTHER -> RarFileAdapter_write(w, file, arcname)

\* for file in files: self.write(file, arcname=file.relative_to(root), ...):
\* the first write that raises ends the loop
RECURSIVE WriteEach(_, _, _, _, _, _)
WriteEach(l, kind, w, files, root, c) ==
    IF files = <<>> THEN Ok("none", w)
    ELSE LET r == write(l, kind, w, FileAt(Head(files)), relative_to(Head(files), root), c)
         IN  IF r.err # "none" THEN r ELSE WriteEach(l, kind, r.w, Tail(files), root, c)

\* the files of the walk that are regular files
RegularOnly(files) == SelectSeq(files, LAMBDA p : FileAt(p).is_file)

\* A slip: the files are written without a look at dir and root.
writeall_Unchecked(l, kind, w, dir, root, files, e, c) ==
    WriteEach(l, kind, w, files, RootOf(dir, root), c)

\* What every writeall does: the check of dir, raising e, the check of root,
\* and the writes
writeall_checked(l, kind, w, dir, root, files, e, c) ==
    IF ~FileAt(dir).is_dir THEN Err(e, w)
    ELSE IF ~IsPrefix(RootOf(dir, root), dir) THEN Err("ValueError", w)
    ELSE WriteEach(l, kind, w, files, RootOf(dir, root), c)

ArchiveFile_writeall(kind, w, dir, root, files, c) ==
    writeall_checked("facade", kind, w, dir, root, files, "UnsupportedArchiveOperation", c)

ZipFileAdapter_writeall(w, dir, root, files, c) ==
    writeall_checked("ZipFileAdapter", "zip", w, dir, root, files, "ValueError", c)

\* if file.is_file(): self.write(file, arcname=arcname)
TarFileAdapter_writeall(w, dir, root, files) ==
    writeall_checked("TarFileAdapter", "tar", w, dir, root, RegularOnly(files), "ValueError",
                     NoCompression)

SevenZipFileAdapter_writeall(w, dir, root, files) ==
    writeall_checked("SevenZipFileAdapter", "7z", w, dir, root, files, "ValueError",
                     NoCompression)

RarFileAdapter_writeall(w, dir, root, files) == Err("NotImplementedError", w)

----------------------------------------------------------------------------
(* The write specification: a handle opened on a new archive in a write   *)
(* mode, by the facade or by the adapter of the format, and the calls of   *)
(* write, write_bytes and writeall made on it, up to the first that raises. *)

MaxWritten == 1
MaxLevel == 1

\* compression_type and compression_level of a call; only the facade and
\* the zip adapter take them
Compressions(l) ==
    IF l \in {"facade", "ZipFileAdapter"}
    THEN [compress_type : {None, DEFLATED, BZIP2}, compresslevel : {None} \cup 0..MaxLevel]
    ELSE {NoCompression}

\* The paths write and writeall are given
Paths == { <<"t">>, <<"t", "a">>, <<"t", "s">>, <<"u">>, <<"n">> }

Roots == {[given |-> FALSE, path |-> <<>>]}
         \cup { [given |-> TRUE, path |-> p] : p \in {<<>>, <<"t">>, <<"u">>} }

InitWrite ==
    \E kind \in WriteKinds :
        /\ suffixes = <<Extension(kind)>>
        /\ exists = FALSE
        /\ content = {}
        /\ layer \in {"facade", AdapterOf(kind)}
        /\ mode \in {"w", "x", "a"}
        /\ handle = Constructed(layer, kind, mode, FALSE).handle
        /\ handler = Constructed(layer, kind, mode, FALSE).handler
        /\ hmode = Constructed(layer, kind, mode, FALSE).hmode
        /\ effect = Constructed(layer, kind, mode, FALSE).effect
        /\ handle = "Open"
        /\ result = NoResult
        /\ archive = <<>>
        /\ decoder = "fresh"
        /\ destination = {}
        /\ scope = "none"
        /\ pending = "none"
        /\ written = <<>>
        /\ cwd = AtImport("A")
        /\ staging = NoStaging

writeall(l, kind, w, dir, root, files, c) ==
    CASE l = "facade" -> ArchiveFile_writeall(kind, w, dir, root, files, c)
      [] l = "TarFileAdapter" -> TarFileAdapter_writeall(w, dir, root, files)
      [] l = "ZipFileAdapter" -> ZipFileAdapter_writeall(w, dir, root, files, c)
      [] l = "SevenZipFileAdapter" -> SevenZipFileAdapter_writeall(w, dir, root, files)
      [] OTHER -> RarFileAdapter_writeall(w, dir, root, files)

\* write(file, arcname=, compression_type=, compression_level=)
Write ==
    /\ handle = "Open"
    /\ result.err = "none"
    /\ Len(archive) < MaxWritten
    /\ \E p \in Paths, arcname \in {<<>>, <<"n">>}, c \in Compressions(layer) :
          Call("write", [file |-> p, arcname |-> arcname, c |-> c],
               write(layer, handler, World("empty"), FileAt(p), arcname, c))

\* write_bytes(data, arcname=, compression_type=, compression_level=)
WriteData ==
    /\ handle = "Open"
    /\ result.err = "none"
    /\ Len(archive) < MaxWritten
    /\ \E c \in Compressions(layer) :
          Call("write_bytes", [arcname |-> <<"n">>, data |-> <<104>>, c |-> c],
               write_bytes(layer, handler, World("empty"), <<104>>, <<"n">>, c))

\* writeall(dir, root=, recursive=, compression_type=, compression_level=)
WriteAll ==
    /\ handle = "Open"
    /\ result.err = "none"
    /\ Len(archive) < MaxWritten
    /\ \E dir \in Paths, root \in Roots, recursive \in BOOLEAN,
          c \in Compressions(layer) \cap {NoCompression, [compress_type |-> BZIP2, compresslevel |-> 0]} :
          \E files \in Orderings(Glob(dir, recursive)) :
              Call("writeall", [dir |-> dir, root |-> root, files |-> files, c |-> c],
                   writeall(layer, handler, World("empty"), dir, root, files, c))

NextWrite ==
    \/ Write
    \/ WriteData
    \/ WriteAll

SpecWrite == InitWrite /\ [][NextWrite]_vars

----------------------------------------------------------------------------
(* The working-directory specification: extract and extractall called      *)
(* without a destination, between changes of the working directory.        *)

Dirs == {"A", "B", "C"}

\* def extract(self, member, *, destination: StrPath = Path.cwd()): the
\* default is the value Path.cwd() had when the def statement ran, at import
DefaultDestination(c) == c.default

\* os.chdir(d)
chdir(c, d) == [c EXCEPT !.now = d]

\* An archive of a file in a directory and a file
CwdArchive(kind) == << Native(kind, Pool[2]), Native(kind, Pool[4]) >>

InitCwd ==
    \E kind \in Kinds :
        /\ suffixes = <<Extension(kind)>>
        /\ exists = TRUE
        /\ content = {kind}
        /\ layer \in {"facade", AdapterOf(kind)}
        /\ mode = "r"
        /\ handle = Constructed(layer, kind, mode, TRUE).handle
        /\ handler = Constructed(layer, kind, mode, TRUE).handler
        /\ hmode = Constructed(layer, kind, mode, TRUE).hmode
        /\ effect = Constructed(layer, kind, mode, TRUE).effect
        /\ handle = "Open"
        /\ result = NoResult
        /\ archive = CwdArchive(kind)
        /\ decoder = "fresh"
        /\ destination = {}
        /\ scope = "none"
        /\ pending = "none"
        /\ written = <<>>
        /\ cwd \in { AtImport(d) : d \in Dirs }
        /\ staging = NoStaging

\* One call without a destination: into is the directory it extracted to
CallHere(op, arg, r) ==
    /\ handle = "Open"
    /\ result' = [op |-> op, arg |-> arg, err |-> r.err, val |-> r.val, on |-> handle,
                  pre |-> [decoder |-> decoder, archive |-> archive],
                  into |-> DefaultDestination(cwd)]
    /\ decoder' = r.w.decoder
    /\ archive' = r.w.entries
    /\ destination' = r.w.disk
    /\ UNCHANGED <<staging, cwd, suffixes, exists, content, layer, mode, handle, handler, hmode,
                   effect, scope, pending, written>>

Chdir ==
    \E d \in Dirs :
        /\ cwd' = chdir(cwd, d)
        /\ result' = [op |-> "chdir", arg |-> d, err |-> "none", val |-> "none",
                      on |-> handle, pre |-> [decoder |-> decoder, archive |-> archive],
                      into |-> "none"]
        /\ UNCHANGED <<staging, suffixes, exists, content, layer, mode, handle, handler, hmode,
                       effect, archive, decoder, destination, scope, pending, written>>

ExtractHere ==
    \E member \in RequestNames, stale \in Stale :
        CallHere("extract", member, extract(layer, handler, World(stale), member))

ExtractAllHere ==
    \E members \in Requests, stale \in Stale :
        CallHere("extractall", members, extractall(layer, handler, World(stale), members))

NextCwd ==
    \/ Chdir
    \/ ExtractHere
    \/ ExtractAllHere

SpecCwd == InitCwd /\ [][NextCwd]_vars

----------------------------------------------------------------------------
(* The path specification: extract on archives whose members are named to  *)
(* leave the destination, "../x" and "/x", next to a plain one.            *)

HostilePool ==
    << [name |-> <<"..", "x">>, dir |-> FALSE, data |-> <<104>>, bad |-> FALSE],
       [name |-> <<"", "x">>, dir |-> FALSE, data |-> <<105>>, bad |-> FALSE],
       [name |-> <<"g">>, dir |-> FALSE, data |-> <<106>>, bad |-> FALSE] >>

HostileArchives(kind) ==
    { [i \in 1..Cardinality(S) |-> Native(kind, HostilePool[Nth(S, i)])] :
        S \in { S \in SUBSET DOMAIN HostilePool : Cardinality(S) <= MaxMembers } }

HostileNames == { <<"..", "x">>, <<"", "x">>, <<"g">>, <<"x">> }

\* Whether tarfile has a data_filter depends on the Python the package runs on
Filters == {"data", "none"}

InitPath ==
    \E kind \in Kinds :
        /\ suffixes = <<Extension(kind)>>
        /\ exists = TRUE
        /\ content = {kind}
        /\ layer \in {"facade", AdapterOf(kind)}
        /\ mode = "r"
        /\ handle = Constructed(layer, kind, mode, TRUE).handle
        /\ handler = Constructed(layer, kind, mode, TRUE).handler
        /\ hmode = Constructed(layer, kind, mode, TRUE).hmode
        /\ effect = Constructed(layer, kind, mode, TRUE).effect
        /\ handle = "Open"
        /\ result = NoResult
        /\ archive \in HostileArchives(kind)
        /\ decoder = "fresh"
        /\ destination = {}
        /\ scope = "none"
        /\ pending = "none"
        /\ written = <<>>
        /\ cwd = AtImport("A")
        /\ staging = NoStaging

ExtractNamed ==
    \E member \in HostileNames, stale \in Stale, f \in Filters :
        Call("extract", member,
             extract(layer, handler, [World(stale) EXCEPT !.filter = f], member))

ExtractAllNamed ==
    \E members \in UNION { [1..n -> HostileNames] : n \in 0..1 }, stale \in Stale, f \in Filters :
        Call("extractall", members,
             extractall(layer, handler, [World(stale) EXCEPT !.filter = f], members))

NextPath ==
    \/ ExtractNamed
    \/ ExtractAllNamed

SpecPath == InitPath /\ [][NextPath]_vars

----------------------------------------------------------------------------
(* The staging specification: the calls that work through a temporary      *)
(* directory, read_bytes, read_text and write_bytes, on a handle opened for *)
(* reading on an archive of the pool or for writing on a new archive; a    *)
(* read of a missing or damaged member and a write on a handle opened for  *)
(* reading are among them.                                                 *)

MaxStaged == 2

InitStaging ==
    \/ Init /\ scope = "none"
    \/ InitWrite

\* write_bytes(data, arcname=); py7zr is given no write on a handle opened
\* for reading
\* arcnames: plain, nested, and pointing above the directory it is joined to
StagedNames == {<<"n">>, <<"d", "n">>, <<"..", "n">>}

WriteStaged ==
    /\ handle = "Open"
    /\ Len(archive) <= MaxStaged
    /\ handler = "7z" => ModeHead(hmode) # "r"
    /\ \E arcname \in StagedNames :
          Call("write_bytes", [arcname |-> arcname, data |-> <<104>>, c |-> NoCompression],
               write_bytes(layer, handler, World("empty"), <<104>>, arcname, NoCompression))

NextStaging ==
    \/ ReadBytes
    \/ ReadText
    \/ WriteStaged

SpecStaging == InitStaging /\ [][NextStaging]_vars

----------------------------------------------------------------------------
(* _enums.py: CompressionType.get.  A string is the sequence of its        *)
(* characters; a key or a default is [t, s, n]: t = "str" with the string  *)
(* s, t = "int" with the number n, t = "none" for None.                    *)

Lower == <<"a", "b", "d", "e", "f", "i", "l", "m", "o", "p", "r", "s", "t", "z">>
Upper == <<"A", "B", "D", "E", "F", "I", "L", "M", "O", "P", "R", "S", "T", "Z">>

\* str.upper(): a lower-case letter becomes its capital, the rest stays
upper(str) ==
    [i \in DOMAIN str |->
        IF \E j \in DOMAIN Lower : Lower[j] = str[i]
        THEN Upper[CHOOSE j \in DOMAIN Lower : Lower[j] = str[i]]
        ELSE str[i]]

STORED_NAME == <<"S", "T", "O", "R", "E", "D">>
DEFLATED_NAME == <<"D", "E", "F", "L", "A", "T", "E", "D">>
BZIP2_NAME == <<"B", "Z", "I", "P", "2">>
LZMA_NAME == <<"L", "Z", "M", "A">>
\* "stored", "bziP2" and a name of no member
STORED_LOWER == <<"s", "t", "o", "r", "e", "d">>
BZIP2_MIXED == <<"b", "z", "i", "P", "2">>
ZSTD == <<"z", "s", "t", "d">>

\* The members of CompressionType, by name
Members ==
    { [name |-> STORED_NAME, value |-> STORED], [name |-> DEFLATED_NAME, value |-> DEFLATED],
      [name |-> BZIP2_NAME, value |-> BZIP2], [name |-> LZMA_NAME, value |-> LZMA] }

\* cls[name]: KeyError unless a member has the name
ByName(name) ==
    IF \E m \in Members : m.name = name
    THEN [err |-> "none", val |-> (CHOOSE m \in Members : m.name = name).value]
    ELSE [err |-> "KeyError", val |-> None]

\* cls(value): ValueError unless a member has the value
ByValue(value) ==
    IF \E m \in Members : m.value = value
    THEN [err |-> "none", val |-> value]
    ELSE [err |-> "ValueError", val |-> None]

StrKey(s) == [t |-> "str", s |-> s, n |-> 0]
IntKey(n) == [t |-> "int", s |-> <<>>, n |-> n]
NoKey == [t |-> "none", s |-> <<>>, n |-> 0]

\* cls[default.upper()] if isinstance(default, str) else cls(default)
ByDefault(default) ==
    IF default.t = "str" THEN ByName(upper(default.s)) ELSE ByValue(default.n)

\* A slip: an unknown key gives STORED whatever the default.
CompressionType_get_Stored(key, default) ==
    LET found == CASE key.t = "str" -> ByName(upper(key.s))
                   [] key.t = "int" -> ByValue(key.n)
                   [] OTHER -> ByDefault(default)
    IN  IF found.err \in {"KeyError", "ValueError"} THEN ByValue(STORED) ELSE found

\* CompressionType.get(key, default)
CompressionType_get(key, default) ==
    LET found == CASE key.t = "str" -> ByName(upper(key.s))
                   [] key.t = "int" -> ByValue(key.n)
                   [] OTHER -> ByDefault(default)
    IN  IF found.err \in {"KeyError", "ValueError"} THEN ByDefault(default) ELSE found

\* The strings of the letters of str, each in either case
CaseVariants(str) ==
    { [i \in DOMAIN str |->
          IF i \in S /\ \E j \in DOMAIN Upper : Upper[j] = upper(str)[i]
          THEN Lower[CHOOSE j \in DOMAIN Upper : Upper[j] = upper(str)[i]]
          ELSE upper(str)[i]] : S \in SUBSET DOMAIN str }

\* Keys: the name lzma in every mix of cases, other names as the tests write
\* them, names of no member, the numbers of the members and others, None
Keys ==
    { StrKey(v) : v \in CaseVariants(LZMA_NAME) }
    \cup { StrKey(STORED_LOWER), StrKey(DEFLATED_NAME), StrKey(BZIP2_MIXED), StrKey(ZSTD), StrKey(<<>>),
           StrKey(LZMA_NAME \o <<" ">>) }
    \cup { IntKey(n) : n \in {STORED, DEFLATED, BZIP2, LZMA, 1, 9} }
    \cup { NoKey }

\* Defaults: by name in either case, by number; and two that name no member
Defaults ==
    { StrKey(STORED_LOWER), StrKey(BZIP2_MIXED), StrKey(LZMA_NAME), IntKey(DEFLATED), IntKey(STORED),
      StrKey(ZSTD), IntKey(9) }

InitEnum ==
    /\ suffixes = <<>>
    /\ exists = FALSE
    /\ content = {}
    /\ layer = "CompressionType"
    /\ mode = "none"
    /\ handle = "Unopened"
    /\ handler = "none"
    /\ hmode = "none"
    /\ effect = "none"
    /\ result \in { [op |-> "none", err |-> "none", arg |-> [key |-> k, default |-> d]] :
                      k \in Keys, d \in Defaults }
    /\ archive = <<>>
    /\ decoder = "fresh"
    /\ destination = {}
    /\ scope = "none"
    /\ pending = "none"
    /\ written = <<>>
    /\ cwd = AtImport("A")
    /\ staging = NoStaging

\* CompressionType.get(key, default), called on the arguments drawn
Get ==
    /\ layer = "CompressionType"
    /\ result.op = "none"
    /\ result' = [op |-> "get", arg |-> result.arg,
                  err |-> CompressionType_get(result.arg.key, result.arg.default).err,
                  val |-> CompressionType_get(result.arg.key, result.arg.default).val]
    /\ UNCHANGED <<staging, suffixes, exists, content, layer, mode, handle, handler, hmode, effect,
                   archive, decoder, destination, scope, pending, written, cwd>>

NextEnum == Get

SpecEnum == InitEnum /\ [][NextEnum]_vars

\* ======================== claims =========================================
----------------------------------------------------------------------------
(* Vocabulary of the claims *)

\* The exception classes the spec's error kind UnsupportedOperation stands for
UnsupportedOperation == {"UnsupportedArchiveOperation", "NotImplementedError"}

FormatExtensions(k) ==
    CASE k = "zip" -> CommonExtensions.ZIP
      [] k = "tar" -> CommonExtensions.TAR
      [] k = "7z"  -> CommonExtensions.SEVENZIP
      [] k = "rar" -> CommonExtensions.RAR

LastSuffix == suffixes[Len(suffixes)]

OpenedBy(l) == layer = l /\ result.op = "open"

OpenRefused == handle = "Unopened" /\ handler = "none" /\ effect = "none"

----------------------------------------------------------------------------
(* C1 *)

SpecOrder == <<"zip", "tar", "7z", "rar">>

SpecCheck(k, c) ==
    CASE k = "zip" -> is_zipfile(c)
      [] k = "tar" -> is_tarfile(c)
      [] k = "7z"  -> is_7zfile(c)
      [] k = "rar" -> is_rarfile(c) \/ is_rarfile_sfx(c)

SpecFirstMatch(c) ==
    IF \E i \in 1..4 : SpecCheck(SpecOrder[i], c)
    THEN SpecOrder[CHOOSE i \in 1..4 :
                      /\ SpecCheck(SpecOrder[i], c)
                      /\ \A j \in 1..(i - 1) : ~SpecCheck(SpecOrder[j], c)]
    ELSE "none"

\* C1: an existing target opened for reading gets the adapter of the first
\* signature check that matches in the order zip, tar, 7z, rar (a rar behind
\* a self-extracting stub counting as rar), and no adapter if none matches.
C1_OpenInSpecOrder ==
    (OpenedBy("facade") /\ exists /\ ModeHead(mode) = "r") =>
        IF SpecFirstMatch(content) = "none"
        THEN handle = "Unopened"
        ELSE handle = "Open" /\ handler = SpecFirstMatch(content)

----------------------------------------------------------------------------
(* C2 *)

OpenOutcome == [handle |-> handle, handler |-> handler, hmode |-> hmode,
                err |-> result.err, effect |-> effect]

----------------------------------------------------------------------------
(* C3 *)

OtherFormats == CommonExtensions.TAR \cup CommonExtensions.ZIP \cup CommonExtensions.SEVENZIP

----------------------------------------------------------------------------
(* Vocabulary of the claims about calls on a handle *)

MemberCalls == {"get_member", "extract", "read_bytes", "read_text"}
Calls == MemberCalls \cup {"get_members", "get_names", "extractall"}

\* The last step was a call of one of ops, made on a handle in state h
Called(ops, h) == result.op \in ops /\ result.on = h

\* n names no entry of the archive, with or without a trailing '/'
Absent(n) == \A i \in DOMAIN archive : rstrip_slash(archive[i].name) # rstrip_slash(n)

\* n names a directory entry of the archive, with or without a trailing '/'
NamesDirectory(n) ==
    \E i \in DOMAIN archive : archive[i].dir /\ rstrip_slash(archive[i].name) = rstrip_slash(n)

\* Nothing was put under the destination (the directory itself may exist)
NothingExtracted == \A f \in destination : f.path = <<>>

SameOutcome(a, b) == a.err = b.err /\ (a.err = "none" => a.val = b.val)

\* C4 (as stated): a call on a closed handle fails, returns nothing and
\* changes neither the handle's state nor the filesystem.
C4_ClosedHandleRefuses ==
    Called(Calls, "Closed") =>
        /\ result.err # "none"
        /\ destination = {}
        /\ decoder = result.pre.decoder
        /\ archive = result.pre.archive

\* C5 (as stated): once the with statement is left the handle is closed,
\* whether the body completed or raised, and what the caller gets is what
\* the body raised: its exception, or nothing.
C5_ExitClosesAndPropagates ==
    /\ scope = "exited" => handle = "Closed"
    /\ result.op = "__exit__" => result.err = pending /\ result.arg = pending

\* C6 (as stated): after a call that failed on an open handle, every read
\* gives the outcome it would have given on the handle as it was before
\* that call.
C6_FailedCallLeavesNoState ==
    (Called(Calls, "Open") /\ result.err # "none") =>
        /\ handle = "Open"
        /\ \A member \in MemberNames, stale \in {"CrcError", "empty"} :
              SameOutcome(read_bytes(layer, handler, World(stale), member),
                          read_bytes(layer, handler,
                                     [World(stale) EXCEPT !.decoder = result.pre.decoder,
                                                          !.entries = result.pre.archive],
                                     member))

\* C7 (as stated): extractall with a name of no entry among the requested
\* ones fails with KeyError and extracts nothing.
C7_AbsentNameExtractsNothing ==
    (Called({"extractall"}, "Open") /\ \E i \in DOMAIN result.arg : Absent(result.arg[i])) =>
        /\ result.err = "KeyError"
        /\ NothingExtracted

\* C8 (as stated): get_member, read_bytes, read_text and extract of a name
\* of no entry all fail with KeyError.
C8_AbsentNameIsKeyError ==
    (Called(MemberCalls, "Open") /\ Absent(result.arg)) => result.err = "KeyError"

\* C9 (as stated): read_bytes of a directory entry returns no bytes and no
\* error, named with or without a trailing '/'.
C9_DirectoryReadsEmpty ==
    (Called({"read_bytes"}, "Open") /\ NamesDirectory(result.arg)) =>
        /\ result.err = "none"
        /\ result.val = <<>>

\* The name is what a path keeps of it: no "", "." part, no trailing '/'
Normalised(n) == PathOf(n) = n

\* C10 (as stated, in its case of a reopened handle): through ArchiveFile,
\* with plain names only, read_bytes on a handle opened for reading after
\* the writing handle was closed gives the bytes last written under the name.
C10_RoundTrip ==
    ( /\ Called({"read_bytes"}, "Open")
      /\ layer = "facade"
      /\ ModeHead(hmode) = "r"
      /\ \A n \in DOMAIN written : Normalised(n) ) =>
        /\ result.err = "none"
        /\ result.val = written[result.arg]

----------------------------------------------------------------------------
(* Claims about members *)

\* The members a call returned: the one of get_member, all of get_members
Returned ==
    IF result.op = "get_member" /\ result.err = "none" THEN {result.val}
    ELSE IF result.op = "get_members" /\ result.err = "none" THEN Range(result.val)
    ELSE {}

\* The native entry a returned member was made from
EntryOf(m) == CHOOSE e \in Range(archive) : e.name = m.name

\* C11: what get_names() returns is the sequence of the names of what
\* get_members() returns: as many, the same, in the order of the container.
C11_NamesOfMembers ==
    (result.op = "get_members" /\ result.err = "none") =>
        LET names == get_names(layer, handler, World("empty"))
        IN  /\ names.err = "none"
            /\ names.val = NameList(result.val)
            /\ names.val = NameList(archive)

C11_Witness ==
    /\ result.op = "get_members" /\ result.err = "none"
    /\ layer = "facade"
    /\ NameList(result.val) = << <<"g">>, <<"d", "f">> >>

\* C12 (as stated): every member returned by get_member or get_members is a
\* directory or a file and not both, whatever the type of its entry.
C12_DirXorFile ==
    \A m \in Returned : m.is_dir # m.is_file

\* C19 (as stated): no member of content is returned with a packed size of
\* 0: where the container reports 0 the member has its size instead.
C19_CompressedSizeNeverZero ==
    \A m \in Returned :
        /\ m.size > 0 => m.compressed_size > 0
        /\ (m.size > 0 /\ EntryOf(m).compressed = 0) => m.compressed_size = m.size

----------------------------------------------------------------------------
(* Claims about the modes and the errors of open *)

\* The target is opened as 7z: by the 7z adapter, or by the facade under a
\* name that carries a 7z extension and no tar or zip extension
SevenZipPath ==
    \/ layer = "SevenZipFileAdapter"
    \/ /\ layer = "facade"
       /\ check_extension(suffixes, CommonExtensions.SEVENZIP)
       /\ ~check_extension(suffixes, CommonExtensions.TAR \cup CommonExtensions.ZIP)

\* What the same constructor gives for the same target in mode w
CreateOutcome ==
    IF layer = "facade"
    THEN initialize_handler(suffixes, exists, content, "w")
    ELSE SevenZipFileAdapter_init("w", exists, content)

\* C13: mode x on an existing 7z file is refused with FileExistsError, no
\* handle returned and the file untouched; mode x and mode a on a 7z path
\* that does not exist create the archive as mode w does.
C13_SevenZipModes ==
    (result.op = "open" /\ layer \in {"facade", "SevenZipFileAdapter"}) =>
        /\ (exists /\ is_7zfile(content) /\ ModeHead(mode) = "x") =>
               result.err = "FileExistsError" /\ OpenRefused
        /\ (~exists /\ SevenZipPath /\ ModeHead(mode) \in {"x", "a"}) =>
               /\ result.err = "none" /\ handle = "Open" /\ handler = "7z"
               /\ effect = "created"
               /\ CreateOutcome.err = result.err /\ CreateOutcome.handle = handle
               /\ CreateOutcome.handler = handler /\ CreateOutcome.effect = effect

C13_Witness ==
    /\ OpenedBy("SevenZipFileAdapter") /\ ~exists /\ mode = "x"
    /\ handle = "Open" /\ handler = "7z" /\ effect = "created"

----------------------------------------------------------------------------
(* Claims about writing *)

\* The entries the last call added to the archive
Added == { archive[i] : i \in (Len(result.pre.archive) + 1)..Len(archive) }

NothingAdded == archive = result.pre.archive

\* The error of a path that is no regular file, or no directory: the
\* facade's UnsupportedArchiveOperation, the adapters' ValueError
NotThatKindOfFile == {"UnsupportedArchiveOperation", "ValueError"}

\* The handle takes a write as it did before the call
StillWritable ==
    /\ handle = "Open"
    /\ write(layer, handler, World("empty"), FileAt(<<"t", "a">>), <<>>, NoCompression).err = "none"

\* C15 (as stated): a zip member asked for with BZIP2 and level 0 is written
\* with BZIP2 and level 1, by write and by write_bytes and writeall; every
\* other type and level reach the codec as they were given.
C15_Bzip2Floor ==
    (result.op \in {"write", "write_bytes", "writeall"} /\ handler = "zip") =>
        /\ \A e \in Added :
              e.codec = IF result.arg.c = [compress_type |-> BZIP2, compresslevel |-> 0]
                        THEN [compress_type |-> BZIP2, compresslevel |-> 1]
                        ELSE result.arg.c
        /\ result.op = "write_bytes" => result.err = "none" /\ Added # {}

RootUsed == RootOf(result.arg.dir, result.arg.root)

----------------------------------------------------------------------------
(* Claims about CompressionType *)

\* Two characters are one letter in either case, or the same character
SameLetter(a, b) == a = b \/ \E j \in DOMAIN Lower : {a, b} = {Lower[j], Upper[j]}

SameIgnoringCase(a, b) ==
    Len(a) = Len(b) /\ \A i \in DOMAIN a : SameLetter(a[i], b[i])

\* The members a key or a default designates: by name ignoring case, by number
Designated(k) ==
    { m \in Members : \/ k.t = "str" /\ SameIgnoringCase(k.s, m.name)
                      \/ k.t = "int" /\ k.n = m.value }

\* C20: get(key, default) returns the member the key designates, by name
\* ignoring case or by number; when the key designates none it returns the
\* member the default designates; and it raises only when the default
\* designates none either.
C20_GetFallsBack ==
    result.op = "get" =>
        LET key == result.arg.key
            default == result.arg.default
        IN  /\ Designated(key) # {} =>
                  result.err = "none" /\ \E m \in Designated(key) : result.val = m.value
            /\ (Designated(key) = {} /\ Designated(default) # {}) =>
                  result.err = "none" /\ \E m \in Designated(default) : result.val = m.value
            /\ Designated(default) # {} => result.err = "none"

C20_Witness ==
    /\ result.op = "get"
    /\ result.arg.key = IntKey(9) /\ result.arg.default = StrKey(BZIP2_MIXED)
    /\ result.err = "none" /\ result.val = BZIP2

----------------------------------------------------------------------------
(* Claims about close *)

\* C18 (as stated): close on a handle that is closed, by close() or by the
\* end of a with statement, raises nothing and leaves the handle closed and
\* the archive as it was.
C18_CloseIdempotent ==
    (result.op \in {"close", "__exit__"} /\ result.on = "Closed") =>
        /\ result.err = (IF result.op = "__exit__" THEN result.arg ELSE "none")
        /\ handle = "Closed"
        /\ archive = result.pre.archive

----------------------------------------------------------------------------
(* Claims about the working directory *)

\* C21 (as stated): extract and extractall called without a destination
\* extract into the directory that is the working directory at the time of
\* the call.
C21_ExtractsIntoCurrentDirectory ==
    result.op \in {"extract", "extractall"} => result.into = cwd.now

----------------------------------------------------------------------------
(* Claims about the paths of extract *)

\* The name leaves the destination when it is joined to it
Hostile(n) == ~Inside(PathOf(n))

\* C22 (as stated): whatever the member is named, extract writes nothing
\* outside the destination and returns no path outside the destination; for
\* a name that leaves the destination it either fails, having written
\* nothing, or writes and returns inside the destination.
C22_ExtractStaysInside ==
    Called({"extract"}, "Open") =>
        /\ \A f \in destination : Inside(f.path)
        /\ result.err = "none" => Inside(result.val)
        /\ (Hostile(result.arg) /\ result.err # "none") => NothingExtracted

----------------------------------------------------------------------------
(* Claims about the 7z decoder *)

DecodingCalls == {"extract", "extractall", "read_bytes", "read_text"}

\* n names a file of the archive whose stored CRC is right
GoodFile(n) ==
    \E i \in DOMAIN archive : archive[i].name = n /\ ~archive[i].dir /\ ~archive[i].bad

DataOf(n) == archive[FindLast(archive, n)].data

\* C23 (as stated): on a 7z handle every extract, extractall and read call
\* that returns leaves the decoder reset, and in any sequence of such calls
\* read_bytes of a file gives its whole content and extract of a file puts
\* it whole under the destination.
C23_SevenZipDecoderReset ==
    (handler = "7z" /\ Called(DecodingCalls, "Open")) =>
        /\ result.err = "none" => decoder = "fresh"
        /\ (result.op = "read_bytes" /\ GoodFile(result.arg)) =>
              /\ result.err = "none"
              /\ result.val = DataOf(result.arg)
        /\ (result.op = "extract" /\ GoodFile(result.arg)) =>
              /\ result.err = "none"
              /\ HasPath(destination, PathOf(result.arg))
              /\ At(destination, PathOf(result.arg)).data = DataOf(result.arg)

----------------------------------------------------------------------------
(* Claims about extractall *)

NoBadEntry == \A i \in DOMAIN archive : ~archive[i].bad

\* The entry is under the destination, a file with its content
Extracted(e) ==
    /\ HasPath(destination, PathOf(e.name))
    /\ ~e.dir => At(destination, PathOf(e.name)).data = e.data

\* The paths of the named members and of their ancestor directories
PathsOf(names) == UNION { Prefixes(PathOf(names[i])) : i \in DOMAIN names }

\* C24 (as stated): on a handle whose decoder is fresh and an archive
\* without damaged members, extractall with no members puts every member
\* of the archive under the destination, and extractall with names of
\* members puts these members there and nothing else.
C24_ExtractAllDecodes ==
    ( /\ Called({"extractall"}, "Open")
      /\ result.pre.decoder = "fresh"
      /\ NoBadEntry
      /\ \A i \in DOMAIN result.arg : ~Absent(result.arg[i]) ) =>
        /\ result.err = "none"
        /\ result.arg = <<>> => \A i \in DOMAIN archive : Extracted(archive[i])
        /\ result.arg # <<>> =>
              /\ \A i \in DOMAIN archive :
                    archive[i].name \in Range(result.arg) => Extracted(archive[i])
              /\ \A f \in destination : f.path \in PathsOf(result.arg)

----------------------------------------------------------------------------
(* Claims about writeall and write_bytes *)

\* The regular files among the paths writeall walked
RegularWalked == { p \in Range(result.arg.files) : FileAt(p).is_file }

\* C25 (as stated): writeall on an existing directory within root succeeds,
\* in tar, zip and 7z; the members it adds are the regular files the walk
\* matched, each named by its path relative to root and holding the file's
\* content; directories the walk matched are passed over.
C25_WriteAllSkipsDirectories ==
    ( /\ result.op = "writeall"
      /\ FileAt(result.arg.dir).is_dir
      /\ IsPrefix(RootUsed, result.arg.dir)
      /\ result.arg.c = NoCompression ) =>
        /\ result.err = "none"
        /\ { [name |-> PathOf(e.name), data |-> e.data] : e \in Added }
             = { [name |-> relative_to(p, RootUsed), data |-> FileAt(p).data] :
                   p \in RegularWalked }

----------------------------------------------------------------------------
(* Claims about extract *)

\* n is the name of an entry, as the archive stores it
Stored(n) == \E i \in DOMAIN archive : archive[i].name = n

\* C26 (as stated): on a handle whose decoder is fresh and an archive
\* without damaged members, extract of a stored name makes the destination
\* directory, puts the member under it, creates nothing there but the member
\* and its ancestor directories, and returns destination / name.
C26_ExtractDecodesOneMember ==
    ( /\ Called({"extract"}, "Open")
      /\ Stored(result.arg)
      /\ result.pre.decoder = "fresh"
      /\ NoBadEntry ) =>
        /\ result.err = "none"
        /\ result.val = PathOf(result.arg)
        /\ HasPath(destination, <<>>)
        /\ HasPath(destination, PathOf(result.arg))
        /\ \A f \in destination : f.path \in Prefixes(PathOf(result.arg))

\* What write gives, on the handle as it was before the call, for a regular
\* file that holds the data of the call, under the arcname of the call
AsWrite ==
    write(layer, handler, [World("empty") EXCEPT !.entries = result.pre.archive],
          TmpFile(result.arg.data, result.arg.arcname), result.arg.arcname, result.arg.c)

\* C27 (as stated): write_bytes leaves the archive that write leaves for a
\* regular file of the same content under the same arcname, and fails where
\* write fails, with the same error.
C27_WriteBytesAsWrite ==
    result.op = "write_bytes" =>
        /\ result.err = AsWrite.err
        /\ archive = AsWrite.w.entries

----------------------------------------------------------------------------
(* Claims about the temporary directories *)

StagingCalls == {"read_bytes", "read_text", "write_bytes"}

\* C28: when a call of read_bytes, read_text or write_bytes is over, whether
\* it returned or raised, nothing is left of the temporary directory it
\* worked in, nor of those of the calls before it.
C28_StagingRemoved ==
    result.op \in StagingCalls => \A f \in staging.left : f.kind # "file"

\* A write through ArchiveFile that raised after its data was staged
C28_Witness ==
    /\ result.op = "write_bytes" /\ layer = "facade" /\ result.err # "none"
    /\ \E f \in staging.held : f.kind = "file"
    /\ \A f \in staging.left : f.kind # "file"


\* C29: the mode a handle reports is the mode string its constructor was
\* given, for as long as the handle exists, open or closed.
C29_ModeAsPassed ==
    handle # "Unopened" => hmode = mode


\* C30: an extract or extractall that raised KeyError for a member the
\* archive does not have left nothing on disk, not even the destination
\* directory, which did not exist when it was called.
C30_NotFoundLeavesNoTrace ==
    (result.op \in {"extract", "extractall"} /\ result.err = "KeyError")
        => destination = {}

============================================================================
